---- MODULE Spec2Model ----
(***************************************************************************)
(* Model of the YAML-driven entity classifier:                             *)
(*   - EntityClassifier.custom_analyze   (index construction)              *)
(*   - EntityClassifier.analyze_response (filters and overlap grouping)    *)
(*   - EntityClassifier.get_analyzed_entities_response                     *)
(*   - ValidationProvider.validate       (validator resolution and call)   *)
(* Confidence scores are modelled in tenths: 5 stands for 0.5, 10 for 1.0. *)
(***************************************************************************)
EXTENDS Integers, Sequences, FiniteSets, TLC

(* ------------------------------ bounds --------------------------------- *)
\* length of the input text (offsets range over 0..TextLen)
TextLen == 2
\* number of detector candidates in one request
MaxCands == 3
\* number of jurisdictions passed to the constructor
MaxCountries == 2
\* length of the texts handed to the decimal-adjacency filter
MaxText == 4
\* number of strings the text generation lists under one output key
MaxVals == 2
\* longest digit run among the values handed to the format heuristics
MaxRun == 6
\* largest number of digits of a run-free value handed to the heuristics
MaxDigits == 31
\* number of threads that call TextGeneration() at the same time
MaxThreads == 3

VARIABLES
    \* EntityClassifier fields built by custom_analyze
    countries_config, group_conf, display_name, validator_index,
    \* control position of the classifier
    pc,
    \* locals of analyze_response
    entity, verdicts, n_seen, seen_here,
    non_overlapping_results, overlapping_results, current_overlap_group,
    \* value returned by analyze_response, and the built response
    results, response,
    \* ValidationProvider.validate: request, calls made, returned value,
    \* whether an exception left the method
    vreq, vcalls, vresult, vraised,
    \* entities_overlap called on its own: arguments and returned value
    overlap_args, overlap_result,
    \* a format heuristic called on its own: the call and the returned value
    heur, heur_result,
    \* the LLM detection pass of a country analyzer: the call, and what it
    \* did (text-generation calls made, candidates returned, exception)
    llm_req, llm_out,
    \* Classification.process_request: the request, and what the service
    \* has done with it so far
    request, svc,
    \* get_analyzed_entities_response called with anonymizer items: the
    \* arguments, and the records returned
    anon, anon_out,
    \* one call of TextGeneration.generate / generate_entity: the call and
    \* the retry state of the two backoff decorators around the backend
    gen,
    \* SingletonMeta: the _instances dict, the instances constructed so
    \* far, and the position and locals of each calling thread
    instances, constructed, threads,
    \* map_values_to_spans called on its own: the arguments and the spans
    span_req, span_out

idx_vars == <<countries_config, group_conf, display_name, validator_index>>
walk_vars == <<entity, verdicts, n_seen, seen_here, non_overlapping_results,
               overlapping_results, current_overlap_group>>
out_vars == <<results, response>>
val_vars == <<vreq, vcalls, vresult, vraised>>
ovl_vars == <<overlap_args, overlap_result>>
heur_vars == <<heur, heur_result>>
llm_vars == <<llm_req, llm_out>>
req_vars == <<request, svc>>
anon_vars == <<anon, anon_out>>
gen_vars == <<gen>>
sing_vars == <<instances, constructed, threads>>
span_vars == <<span_req, span_out>>
svc_vars == <<req_vars, anon_vars, gen_vars, sing_vars, span_vars>>
vars == <<countries_config, group_conf, display_name, validator_index, pc,
          entity, verdicts, n_seen, seen_here, non_overlapping_results,
          overlapping_results, current_overlap_group, results, response,
          vreq, vcalls, vresult, vraised, overlap_args, overlap_result,
          heur, heur_result, llm_req, llm_out, request, svc, anon, anon_out,
          gen, instances, constructed, threads, span_req, span_out>>

(* ----------------------- configuration model --------------------------- *)
\* Thresholds absent from the YAML (ent.detect.thresholds is None)
NoThreshold == -1
\* min_conf used when the config declares no threshold (1.0)
DefaultMinConf == 10
\* an optional string that is not set (None)
None == ""

EntityIds == {"us-ssn", "phone-number", "zz-id"}

\* EntityConfig: the fields custom_analyze reads
EntityConfig(enabled, group, thr, return_name, validate_fn) ==
    [enabled |-> enabled, group |-> group, min_confidence |-> thr,
     return_name |-> return_name, validate_fn |-> validate_fn]

\* CountryConfig: country code and entity id -> EntityConfig
CountryConfig(country, entities) == [country |-> country, entities |-> entities]

\* dict.get(key, default)
DictGet(d, k, default) == IF k \in DOMAIN d THEN d[k] ELSE default

(* --------------------- custom_analyze (lines 66-95) -------------------- *)
\* variant: an entity without thresholds gets the minimum 0.0
min_conf_of_zero(ent) ==
    IF ent.min_confidence # NoThreshold THEN ent.min_confidence ELSE 0

\* lines 77-82: min_conf of an enabled entity
min_conf_of(ent) ==
    IF ent.min_confidence # NoThreshold THEN ent.min_confidence ELSE DefaultMinConf

\* line 83: group name, "unknown" when the config gives none
group_name_of(ent) == IF ent.group # None THEN ent.group ELSE "unknown"

\* One iteration of `for country in self.countries`: every entity of the
\* country's config is registered into the three indices.  An index entry
\* is written only under its `if` (enabled, return_name set, validator set);
\* validate_fn stands for `ent.validate_fn or ent.validation.fn`, and the
\* rule parameters stored next to fn are not represented.
register_country(idx, cfg) ==
    LET ents == cfg.entities
        en == {e \in DOMAIN ents : ents[e].enabled}
        named == {e \in en : ents[e].return_name # None}
        withfn == {e \in en : ents[e].validate_fn # None}
    IN [group_conf |->
            [e \in (DOMAIN idx.group_conf) \cup en |->
                IF e \in en THEN <<min_conf_of(ents[e]), group_name_of(ents[e])>>
                ELSE idx.group_conf[e]],
        display_name |->
            [e \in (DOMAIN idx.display_name) \cup named |->
                IF e \in named THEN ents[e].return_name ELSE idx.display_name[e]],
        validator_index |->
            [e \in (DOMAIN idx.validator_index) \cup withfn |->
                IF e \in withfn
                THEN [country |-> cfg.country, fn |-> ents[e].validate_fn]
                ELSE idx.validator_index[e]]]

EmptyIndex == [group_conf |-> <<>>, display_name |-> <<>>, validator_index |-> <<>>]

RECURSIVE custom_analyze_upto(_, _)
custom_analyze_upto(cfgs, k) ==
    IF k = 0 THEN EmptyIndex
    ELSE register_country(custom_analyze_upto(cfgs, k - 1), cfgs[k])

\* the whole loop over self.countries
custom_analyze(cfgs) == custom_analyze_upto(cfgs, Len(cfgs))

(* ------------------- analyze_response (lines 97-178) ------------------- *)
Types == EntityIds
\* confidence scores a detector can report (tenths)
Scores == {0, 5}

\* RecognizerResult: half-open span [start, end) with start < end
RecognizerResult(t, s, e, sc) ==
    [entity_type |-> t, start |-> s, end |-> e, score |-> sc]

Candidates ==
    {c \in [entity_type : Types, start : 0..(TextLen - 1), end : 1..TextLen,
            score : Scores] : c.start < c.end}

\* value of the loop variable before the first iteration
NoEntity == RecognizerResult(None, 0, 0, 0)

\* variant: spans that only touch count as overlapping (`<` for `<=`)
entities_overlap_touching(entity1, entity2) ==
    ~ (entity1.end < entity2.start
       \/ (entity2.end < entity1.start
           /\ entity1.entity_type # entity2.entity_type))

\* line 51.  Python parses `not (a or b and c)` as `not (a or (b and c))`.
entities_overlap(entity1, entity2) ==
    ~ (entity1.end <= entity2.start
       \/ (entity2.end <= entity1.start
           /\ entity1.entity_type # entity2.entity_type))

\* variant: the default of the lookup names a real group
group_conf_get_known(gc, t) == DictGet(gc, t, <<0, "pii">>)

\* lines 128 and 264: self._group_conf.get(entity_type, (0.0, "unknown"))
group_conf_get(gc, t) == DictGet(gc, t, <<0, "unknown">>)

\* variant: the score has to exceed the minimum (`>` for `>=`)
passes_filters_strict(gc, vi, e, v) ==
    LET mg == DictGet(gc, e.entity_type, <<0, "unknown">>)
        yaml_valid == IF e.entity_type \in DOMAIN vi THEN v.yaml ELSE TRUE
    IN  /\ v.decimal
        /\ mg[2] # "unknown"
        /\ e.score # 0
        /\ e.score > mg[1]
        /\ v.generic
        /\ yaml_valid

\* lines 126-148: the filters a candidate has to pass.  v holds what
\* is_not_part_of_decimal, validate_extracted_data and the YAML validator
\* return for this candidate (a validate_extracted_data that raises is
\* caught at line 163 and drops the candidate like a False).
passes_filters(gc, vi, e, v) ==
    LET mg == group_conf_get(gc, e.entity_type)
        yaml_valid == IF e.entity_type \in DOMAIN vi THEN v.yaml ELSE TRUE
    IN  /\ v.decimal
        /\ mg[2] # "unknown"
        /\ e.score # 0
        /\ e.score >= mg[1]
        /\ v.generic
        /\ yaml_valid

\* variant: a group of one member is filed as an overlap group (`>= 1`)
flush_group_any(st) ==
    IF Len(st.cur) >= 1
    THEN [st EXCEPT !.ovr = Append(st.ovr, st.cur)]
    ELSE st

\* lines 158-161 and 170-173: flush of the current group
flush_group(st) ==
    IF Len(st.cur) > 1
    THEN [st EXCEPT !.ovr = Append(st.ovr, st.cur)]
    ELSE IF Len(st.cur) = 1
         THEN [st EXCEPT !.nor = Append(st.nor, st.cur[1])]
         ELSE st

\* variant: a candidate of another type restarts the group instead of
\* joining it
group_entity_restart(st, e) ==
    IF st.cur # <<>> /\ entities_overlap(st.cur[Len(st.cur)], e)
    THEN IF st.cur[Len(st.cur)].entity_type = e.entity_type
         THEN [st EXCEPT !.nor = Append(st.nor, e)]
         ELSE [st EXCEPT !.cur = <<e>>]
    ELSE [flush_group(st) EXCEPT !.cur = <<e>>]

\* variant: the two branches of the type test are exchanged
group_entity_swapped(st, e) ==
    IF st.cur # <<>> /\ entities_overlap(st.cur[Len(st.cur)], e)
    THEN IF st.cur[Len(st.cur)].entity_type # e.entity_type
         THEN [st EXCEPT !.nor = Append(st.nor, e)]
         ELSE [st EXCEPT !.cur = Append(st.cur, e)]
    ELSE [flush_group(st) EXCEPT !.cur = <<e>>]

\* lines 149-162: grouping of one accepted candidate
group_entity(st, e) ==
    IF st.cur # <<>> /\ entities_overlap(st.cur[Len(st.cur)], e)
    THEN IF st.cur[Len(st.cur)].entity_type = e.entity_type
         THEN [st EXCEPT !.nor = Append(st.nor, e)]
         ELSE [st EXCEPT !.cur = Append(st.cur, e)]
    ELSE [flush_group(st) EXCEPT !.cur = <<e>>]

WalkState == [nor |-> non_overlapping_results, ovr |-> overlapping_results,
              cur |-> current_overlap_group]

SetWalkState(st) ==
    /\ non_overlapping_results' = st.nor
    /\ overlapping_results' = st.ovr
    /\ current_overlap_group' = st.cur

\* One iteration of `for entity in sorted_analyzer_results` (lines 124-168).
\* The sorted stream is revealed one element per iteration: the next element
\* starts at or after the previous one, and the detectors return no two
\* candidates with the same entity id and span (seen_here holds the
\* candidates already met at the current start offset).  A filter the
\* iteration does not call returns nothing, and its field in v stays TRUE:
\* the YAML validator is called only inside the decimal branch, past the
\* `continue` of an unknown group and when the entity has a validator
\* (lines 126-142); validate_extracted_data only when the `and` chain of
\* lines 144-146 reaches it.
AnalyzeEntity(e, v) ==
    /\ pc = "walk"
    /\ n_seen < MaxCands
    /\ e.start >= entity.start
    /\ (e.start = entity.start => <<e.entity_type, e.end>> \notin seen_here)
    /\ seen_here' = (IF e.start = entity.start THEN seen_here ELSE {})
                        \cup {<<e.entity_type, e.end>>}
    /\ (e.entity_type \notin DOMAIN validator_index => v.yaml)
    /\ LET mg == group_conf_get(group_conf, e.entity_type)
       IN  /\ (~ v.decimal \/ mg[2] = "unknown") => (v.yaml /\ v.generic)
           /\ (e.score = 0 \/ e.score < mg[1]) => v.generic
    /\ entity' = e
    /\ verdicts' = v
    /\ n_seen' = n_seen + 1
    /\ SetWalkState(IF passes_filters(group_conf, validator_index, e, v)
                    THEN group_entity(WalkState, e)
                    ELSE WalkState)
    /\ UNCHANGED <<pc, idx_vars, out_vars, val_vars, ovl_vars, heur_vars, llm_vars, svc_vars>>

\* lines 170-173: end of the stream, the trailing group is flushed and
\* judge_results is about to be called
EndOfStream ==
    /\ pc = "walk"
    /\ SetWalkState(flush_group(WalkState))
    /\ pc' = "judge"
    /\ UNCHANGED <<entity, verdicts, n_seen, seen_here, idx_vars, out_vars, val_vars, ovl_vars, heur_vars, llm_vars, svc_vars>>

RECURSIVE Flatten(_)
Flatten(groups) ==
    IF groups = <<>> THEN <<>> ELSE Head(groups) \o Flatten(Tail(groups))

SeqToSet(s) == {s[k] : k \in 1..Len(s)}

\* judge_results(input_text, overlapping_results, text_gen): a verdict per
\* member of every submitted group; the members judged correct come back.
judge_results(groups, correct) ==
    LET InCorrect(c) == c \in correct
    IN SelectSeq(Flatten(groups), InCorrect)

\* lines 174-178: arbitration, merge and de-duplication
JudgeResults(correct) ==
    /\ pc = "judge"
    /\ correct \subseteq SeqToSet(Flatten(overlapping_results))
    /\ non_overlapping_results' =
           non_overlapping_results \o judge_results(overlapping_results, correct)
    /\ results' = SeqToSet(non_overlapping_results')
    /\ pc' = "respond"
    /\ UNCHANGED <<entity, verdicts, n_seen, seen_here, overlapping_results,
                   current_overlap_group, response, idx_vars, val_vars, ovl_vars, heur_vars, llm_vars, svc_vars>>

(* ---------- get_analyzed_entities_response (lines 230-281) ------------- *)
IsSortedByStart(s) == \A k \in 1..(Len(s) - 1) : s[k].start <= s[k + 1].start

\* _sort_analyzed_data: the results listed in start order (the order of
\* equal starts is the iteration order of the set)
SortedListings(S) ==
    {s \in [1..Cardinality(S) -> S] : SeqToSet(s) = S /\ IsSortedByStart(s)}

\* variant: the end offset is taken from the location shifted for a
\* placeholder
detail_record_shifted(dn, value) ==
    [entity_type |-> DictGet(dn, value.entity_type, value.entity_type),
     location |-> <<value.start, value.end>>,
     confidence_score |-> value.score,
     start_index |-> value.start,
     end_index |-> value.end + 6]

\* lines 254-276 without anonymization: one record per result of known group
detail_record(dn, value) ==
    [entity_type |-> DictGet(dn, value.entity_type, value.entity_type),
     location |-> <<value.start, value.end>>,
     confidence_score |-> value.score,
     start_index |-> value.start,
     end_index |-> value.end]

RECURSIVE build_response(_, _, _)
build_response(gc, dn, data) ==
    IF data = <<>> THEN <<>>
    ELSE IF group_conf_get(gc, Head(data).entity_type)[2] = "unknown"
         THEN build_response(gc, dn, Tail(data))
         ELSE <<detail_record(dn, Head(data))>> \o build_response(gc, dn, Tail(data))

GetAnalyzedEntitiesResponse(analyzed_data) ==
    /\ pc = "respond"
    /\ analyzed_data \in SortedListings(results)
    /\ response' = build_response(group_conf, display_name, analyzed_data)
    /\ pc' = "done"
    /\ UNCHANGED <<results, walk_vars, idx_vars, val_vars, ovl_vars, heur_vars, llm_vars, svc_vars>>

(* --------------------------- values and texts -------------------------- *)
\* A Python str is a sequence of one-character strings.
Digits == <<"0", "1", "2", "3", "4", "5", "6", "7", "8", "9">>

\* c.isdigit()
IsDigit(c) == \E d \in 1..Len(Digits) : Digits[d] = c

\* int(c) of a digit character
DigitVal(c) == (CHOOSE d \in 1..Len(Digits) : Digits[d] = c) - 1

\* s[a:b] for 0 <= a <= b <= len(s)
Slice(s, a, b) == [k \in 1..(b - a) |-> s[a + k]]

AllDigits(s) == \A k \in 1..Len(s) : IsDigit(s[k])

UpperCase ==
    <<"A", "B", "C", "D", "E", "F", "G", "H", "I", "J", "K", "L", "M", "N",
      "O", "P", "Q", "R", "S", "T", "U", "V", "W", "X", "Y", "Z">>
LowerCase ==
    <<"a", "b", "c", "d", "e", "f", "g", "h", "i", "j", "k", "l", "m", "n",
      "o", "p", "q", "r", "s", "t", "u", "v", "w", "x", "y", "z">>

\* c.lower()
LowerChar(c) ==
    IF \E i \in 1..Len(UpperCase) : UpperCase[i] = c
    THEN LowerCase[CHOOSE i \in 1..Len(UpperCase) : UpperCase[i] = c]
    ELSE c

\* [A-Za-z]
IsLetter(c) ==
    \E i \in 1..Len(UpperCase) : UpperCase[i] = c \/ LowerCase[i] = c

\* the pattern pat (lower case) occurs in s, case ignored
ContainsIgnoreCase(s, pat) ==
    \E i \in 0..(Len(s) - Len(pat)) :
        \A k \in 1..Len(pat) : LowerChar(s[i + k]) = pat[k]

(* ------------------ validate_us_ssn (us_analyzer.py) ------------------- *)
SsnBlacklist == {<<"0", "7", "8", "0", "5", "1", "1", "2", "0">>, <<"4", "5", "7", "5", "5", "5", "4", "6", "2">>, <<"2", "1", "9", "0", "9", "9", "9", "9", "9">>}

\* ssn.is_valid(value) of python-stdnum: separators removed, nine digits,
\* area not 000, 666 or 9xx, group not 00, serial not 0000, not blacklisted
ssn_is_valid(value) ==
    LET NotDash(c) == c # "-"
        number == SelectSeq(value, NotDash)
    IN /\ Len(number) = 9
       /\ AllDigits(number)
       /\ Slice(number, 0, 3) \notin {<<"0", "0", "0">>, <<"6", "6", "6">>}
       /\ number[1] # "9"
       /\ Slice(number, 3, 5) # <<"0", "0">>
       /\ Slice(number, 5, 9) # <<"0", "0", "0", "0">>
       /\ number \notin SsnBlacklist

(* ------------- format heuristics (utils/result_validation.py) ---------- *)
\* default of min_consecutive
MinConsecutive == 5

\* the digits of s, in order: [c for c in s if c.isdigit()], re.sub(r"\D", "", s)
digits_of(s) == SelectSeq(s, IsDigit)

\* str.lower() on the labels of the model
Lower(label) ==
    IF label = "SSN" THEN "ssn"
    ELSE IF label = "PHONE_NUMBER" THEN "phone_number"
    ELSE IF label = "DATE_OF_BIRTH" THEN "date_of_birth"
    ELSE label

\* lines 150-160: True when the value holds a letter (re.search [A-Za-z]+)
is_valid_numeric_field(field_value) ==
    \E k \in 1..Len(field_value) : IsLetter(field_value[k])

\* The loop shared by the three run checks (lines 260-269, 287-296,
\* 317-326): count reaches min_consecutive exactly when min_consecutive
\* neighbouring digits each differ from the previous one by step.
counts_run(digits, step) ==
    \E i \in 1..(Len(digits) - MinConsecutive + 1) :
        \A j \in i..(i + MinConsecutive - 2) :
            DigitVal(digits[j + 1]) = DigitVal(digits[j]) + step

\* lines 244-269
has_consecutive_decreasing_numbers(s) ==
    LET digits == digits_of(s)
    IN IF Len(digits) < MinConsecutive THEN FALSE
       ELSE IF Len(digits) # Len(s) THEN FALSE
       ELSE counts_run(digits, -1)

\* lines 272-297
has_consecutive_repetitive_numbers(s) ==
    LET digits == digits_of(s)
    IN IF Len(digits) < MinConsecutive THEN FALSE
       ELSE IF Len(digits) # Len(s) THEN FALSE
       ELSE counts_run(digits, 0)

\* lines 300-327
has_consecutive_increasing_numbers(s) ==
    LET digits == digits_of(s)
    IN IF Len(digits) < MinConsecutive THEN FALSE
       ELSE IF Len(digits) # Len(s) THEN FALSE
       ELSE counts_run(digits, 1)

\* group numbers python-stdnum allows in an ITIN
ItinGroups == (50..65) \cup (70..88) \cup (90..92) \cup (94..99)

\* itin.is_valid(value) of python-stdnum: separators removed, nine digits,
\* first digit 9, group number among the allowed ones
itin_is_valid(value) ==
    LET NotDash(c) == c # "-"
        number == SelectSeq(value, NotDash)
    IN /\ Len(number) = 9
       /\ AllDigits(number)
       /\ number[1] = "9"
       /\ (10 * DigitVal(number[4]) + DigitVal(number[5])) \in ItinGroups

\* lines 164-187
is_valid_length_for_entity(key_label, field_value) ==
    LET digit_value == digits_of(field_value)
    IN IF Lower(key_label) = "ssn"
       THEN Len(digit_value) = 9 /\ ssn_is_valid(field_value)
       ELSE IF Lower(key_label) = "itin"
       THEN Len(digit_value) = 9 /\ itin_is_valid(field_value)
       ELSE IF Lower(key_label) = "credit_card_number"
       THEN 12 <= Len(digit_value) /\ Len(digit_value) <= 19
       ELSE IF Lower(key_label) = "phone_number"
       THEN 7 <= Len(digit_value) /\ Len(digit_value) <= 30
       ELSE IF Lower(key_label) = "bank_account_number"
       THEN 6 <= Len(digit_value) /\ Len(digit_value) <= 15
       ELSE TRUE

\* lines 74-83: alternatives of dob_regex (those of the other languages
\* use words that no text of the model contains)
DobKeywords == {<<"b", "i", "r", "t", "h">>, <<"d", "o", "b">>, <<"b", "o", "r", "n">>}

\* dob_regex.search(text), compiled with re.IGNORECASE
dob_regex_search(text) == \E kw \in DobKeywords : ContainsIgnoreCase(text, kw)

\* date strings handed to the validator
DateValues == {<<"2", "0", "2", "4", "-", "0", "1", "-", "1", "5">>, <<"1", "/", "1", "5", "/", "2", "4">>, <<"9", "9", "/", "9", "9", "/", "9", "9", "9", "9">>}

\* dateutil's parse(date) returns for these and raises ParserError for the
\* other date strings of the model
ParsableDates == {<<"2", "0", "2", "4", "-", "0", "1", "-", "1", "5">>, <<"1", "/", "1", "5", "/", "2", "4">>}

\* lines 190-209
is_valid_date(date, text) ==
    IF Len(date) < 8 THEN FALSE
    ELSE IF ~ dob_regex_search(text) THEN FALSE
    ELSE date \in ParsableDates

\* lines 352-363: the labels checked as numeric fields
NumericLabels ==
    {"ssn", "credit_card_number", "itin", "phone_number", "bank_account_number",
     "us_bank_number", "us_bank_account_number", "credit_card", "us_ssn",
     "us_itin"}

\* labels the model hands to the heuristics: the numeric ones, upper-case
\* spellings, and the three spellings of the date of birth (the label the
\* validator tests, the entity DobRecognizer reports, the configured id)
DobLabels == {"date_of_birth", "DATE_OF_BIRTH", "date-of-birth"}
HeurLabels == NumericLabels \cup {"SSN", "PHONE_NUMBER"} \cup DobLabels

\* lines 333-403, for the labels of HeurLabels: the date-of-birth test
\* (350-351), the numeric-field test (352-372) and the ITIN test (398-399);
\* no other branch names one of these labels
validate_extracted_data(label, extracted_text, text) ==
    IF label = "date_of_birth" /\ ~ is_valid_date(extracted_text, text)
    THEN FALSE
    ELSE IF /\ Lower(label) \in NumericLabels
            /\ \/ is_valid_numeric_field(extracted_text)
               \/ ~ is_valid_length_for_entity(label, extracted_text)
               \/ has_consecutive_increasing_numbers(extracted_text)
               \/ has_consecutive_decreasing_numbers(extracted_text)
               \/ has_consecutive_repetitive_numbers(extracted_text)
    THEN FALSE
    ELSE IF Lower(label) \in {"itin", "us_itin"}
    THEN itin_is_valid(extracted_text)
    ELSE TRUE

\* lines 76-100 of us_analyzer.py (the helpers it imports from
\* entity_classifier_2/core/utils.py read as the ones above)
validate_bank_account_number(value) ==
    LET digit_value == digits_of(value)
        a1 == 6 <= Len(digit_value) /\ Len(digit_value) <= 17
        a2 == ~ is_valid_numeric_field(value)
        a3 == ~ has_consecutive_increasing_numbers(value)
        a4 == ~ has_consecutive_decreasing_numbers(value)
        a5 == ~ has_consecutive_repetitive_numbers(value)
    IN Len(value) <= 15 /\ a2 /\ a3 /\ a4 /\ a5 /\ a1

\* lines 121-141 of us_analyzer.py
validate_phone_number(value) ==
    /\ 7 <= Len(value) /\ Len(value) <= 30
    /\ ~ has_consecutive_increasing_numbers(value)
    /\ ~ has_consecutive_decreasing_numbers(value)
    /\ ~ has_consecutive_repetitive_numbers(value)

\* text[i] of Python: a negative index counts from the end, an index out
\* of range raises IndexError
PyIndex(text, i) ==
    IF 0 <= i /\ i < Len(text) THEN text[i + 1]
    ELSE IF i < 0 /\ -i <= Len(text) THEN text[Len(text) + i + 1]
    ELSE "IndexError"

\* lines 420-429: the labels the decimal-adjacency filter applies to
DecimalLabels ==
    {"ssn", "credit_card", "itin", "phone_number", "us_bank_number",
     "us_driver_license", "us_ssn", "us_itin"}

\* lines 431-434: the test of the characters before the match; "raise"
\* when an index is out of range
decimal_before(text, start_index) ==
    IF start_index > 0
    THEN LET char_before == PyIndex(text, start_index - 1)
         IN IF char_before = "IndexError" THEN "raise"
            ELSE IF IsDigit(char_before) THEN "reject"
            ELSE IF char_before = "."
                 THEN LET c2 == PyIndex(text, start_index - 2)
                      IN IF c2 = "IndexError" THEN "raise"
                         ELSE IF IsDigit(c2) THEN "reject" ELSE "pass"
                 ELSE "pass"
    ELSE "pass"

\* lines 437-440: the test of the characters after the match
decimal_after(text, end_index) ==
    IF end_index < Len(text)
    THEN LET char_after == PyIndex(text, end_index)
         IN IF IsDigit(char_after) THEN "reject"
            ELSE IF char_after = "."
                 THEN LET c2 == PyIndex(text, end_index + 1)
                      IN IF c2 = "IndexError" THEN "raise"
                         ELSE IF IsDigit(c2) THEN "reject" ELSE "pass"
                 ELSE "pass"
    ELSE "pass"

\* lines 405-445: False when a test rejects, True when both pass and
\* (line 444) when an exception is raised
is_not_part_of_decimal(label, text, start_index, end_index) ==
    IF Lower(label) \in DecimalLabels
    THEN LET before == decimal_before(text, start_index)
         IN IF before = "reject" THEN FALSE
            ELSE IF before = "raise" THEN TRUE
            ELSE decimal_after(text, end_index) # "reject"
    ELSE TRUE

(* --------- map_values_to_spans (engine/span_resolver.py) --------------- *)
\* entities of the analyzer's config: enabled flag and llm.output_key
LlmEntities ==
    [eid \in {"us-ssn", "phone-number", "zz-id"} |->
        IF eid = "us-ssn" THEN [enabled |-> TRUE, output_key |-> None]
        ELSE IF eid = "phone-number" THEN [enabled |-> TRUE, output_key |-> "PHONE"]
        ELSE [enabled |-> FALSE, output_key |-> None]]

\* eid.replace('-', '_').upper()
DefaultKey(eid) ==
    IF eid = "us-ssn" THEN "US_SSN"
    ELSE IF eid = "phone-number" THEN "PHONE_NUMBER"
    ELSE "ZZ_ID"

\* line 29
output_key_of(eid) ==
    IF LlmEntities[eid].output_key # None
    THEN LlmEntities[eid].output_key ELSE DefaultKey(eid)

\* lines 25-30 and 39: key_to_entity.get(out_key), None when no enabled
\* entity has that output key
key_to_entity_get(out_key) ==
    LET eids == {eid \in DOMAIN LlmEntities :
                    LlmEntities[eid].enabled /\ output_key_of(eid) = out_key}
    IN IF eids = {} THEN None ELSE CHOOSE eid \in eids : TRUE

\* text.find(val): offset of the first occurrence, -1 when there is none
Find(text, val) ==
    LET At(i) == \A k \in 1..Len(val) : text[i + k] = val[k]
        hits == {i \in 0..(Len(text) - Len(val)) : At(i)}
    IN IF hits = {} THEN -1 ELSE CHOOSE i \in hits : \A j \in hits : i <= j

\* val.strip() is not empty
StripsNonEmpty(val) == \E k \in 1..Len(val) : val[k] # " "

\* variant: no span is taken to overlap another
span_overlaps_never(a, b) == FALSE

\* lines 35-36
span_overlaps(a, b) == ~ (a[2] <= b[1] \/ b[2] <= a[1])

\* lines 42-55: the values listed under one key, in order; found holds
\* the (entity, start, end) triples appended so far
RECURSIVE map_values(_, _, _, _)
map_values(eid, values, text, found) ==
    IF values = <<>> THEN found
    ELSE LET val == Head(values)
             start == Find(text, val)
             end == start + Len(val)
             skip ==
                 \/ ~ StripsNonEmpty(val)
                 \/ start < 0
                 \/ \E u \in 1..Len(found) :
                        span_overlaps(<<start, end>>, <<found[u][2], found[u][3]>>)
         IN map_values(eid, Tail(values), text,
                       IF skip THEN found ELSE Append(found, <<eid, start, end>>))

\* lines 38-41: the keys of the mapping, in order
RECURSIVE map_items(_, _, _)
map_items(items, text, found) ==
    IF items = <<>> THEN found
    ELSE LET eid == key_to_entity_get(Head(items).key)
         IN map_items(Tail(items), text,
                      IF eid = None \/ Head(items).values = <<>>
                      THEN found
                      ELSE map_values(eid, Head(items).values, text, found))

\* lines 8-56
map_values_to_spans(det_raw, text) == map_items(det_raw, text, <<>>)

(* -------- BaseCountryAnalyzer (analyzers/base_analyzer.py) ------------- *)
\* line 117: the local flag
use_llm == FALSE

\* line 136: the score of an LLM candidate, in tenths
LlmScore == 8

\* line 122-128: the entity ids the prompt is built for
llm_ids_for(req) ==
    IF req.has_targets
    THEN req.llm_entity_ids \cap req.target_ids ELSE req.llm_entity_ids

\* lines 121-137: the body after the flag test; raised tells that an
\* exception left the body
llm_body(req) ==
    IF ~ req.enable_llm \/ req.llm_entity_ids = {}
    THEN [calls |-> 0, results |-> <<>>, raised |-> FALSE]
    ELSE IF llm_ids_for(req) = {}
    THEN [calls |-> 0, results |-> <<>>, raised |-> FALSE]
    ELSE IF req.det.kind = "exception"
    THEN [calls |-> 1, results |-> <<>>, raised |-> TRUE]
    ELSE IF req.det.kind # "mapping" \/ req.det.items = <<>>
    THEN [calls |-> 1, results |-> <<>>, raised |-> FALSE]
    ELSE LET provisional == map_values_to_spans(req.det.items, req.text)
         IN [calls |-> 1,
             results |-> [k \in 1..Len(provisional) |->
                            RecognizerResult(provisional[k][1], provisional[k][2],
                                             provisional[k][3], LlmScore)],
             raised |-> FALSE]

\* variant: the body runs without the flag test and without the handler
llm_detect_and_validate_unguarded(req) == llm_body(req)

\* lines 109-141: the flag test (117-120) and the handler (138-141)
\* around the body
llm_detect_and_validate(req) ==
    IF ~ use_llm
    THEN [calls |-> 0, results |-> <<>>, raised |-> FALSE]
    ELSE LET b == llm_body(req)
         IN IF b.raised
            THEN [calls |-> b.calls, results |-> <<>>, raised |-> FALSE]
            ELSE b

\* lines 151-160: the result reaches the validator call
r_checked(req, r) ==
    /\ r.entity_type \in DOMAIN LlmEntities
    /\ LlmEntities[r.entity_type].enabled
    /\ ~ (r.score < req.min_conf)
    /\ req.validator # "none"

\* lines 143-178: threshold and validator per result; the validator is an
\* analyzer method that accepts, rejects or raises (req.validator)
post_filter(req, llm_results) ==
    LET Keeps(r) ==
            /\ r.entity_type \in DOMAIN LlmEntities
            /\ LlmEntities[r.entity_type].enabled
            /\ ~ (r.score < req.min_conf)
            /\ req.validator # "false"
    IN [results |-> SelectSeq(llm_results, Keeps),
        raised |-> \E k \in 1..Len(llm_results) :
                      /\ r_checked(req, llm_results[k])
                      /\ req.validator = "raise"]

\* lines 180-200
analyze(req) ==
    LET llm_targets ==
            IF req.has_targets THEN req.target_ids \cap req.llm_entity_ids ELSE {}
        d == IF req.enable_llm
             THEN llm_detect_and_validate(
                      [req EXCEPT !.target_ids = llm_targets])
             ELSE [calls |-> 0, results |-> <<>>, raised |-> FALSE]
        f == post_filter(req, d.results)
    IN [calls |-> d.calls,
        results |-> IF d.raised \/ f.raised THEN <<>> ELSE f.results,
        raised |-> d.raised \/ f.raised]

(* ------------- ValidationProvider.validate (validation.py) ------------- *)
\* values handed to validate
SsnValues ==
    {<<"1", "2", "3", "-", "4", "5", "-", "6", "7", "8", "9">>,
     <<"0", "0", "0", "-", "4", "5", "-", "6", "7", "8", "9">>,
     <<"1", "2", "3", "4", "5", "6">>}

\* number of arguments of the richest call (value, text, country, rules)
MaxArgs == 4

ValidatorNames ==
    {"pkg.validators.check", "validate_us_ssn", "always_true", "__doc__",
     "no_such_validator", "us-ssn"}

\* line 104: "." in fn
has_dot(fn) == fn \in {"pkg.validators.check"}

\* What one call of a callable with n arguments does:
\*   "mismatch"  TypeError raised by the call, the arguments do not fit
\*   "typeerror" TypeError raised inside the body
\*   "error"     any other exception raised inside the body
\*   "true" / "false"  the returned value under bool()
Outcomes == {"mismatch", "typeerror", "error", "true", "false"}

\* A callable: its outcome per number of arguments.  The argument counts a
\* Python signature accepts form an interval.
Callables ==
    {f \in [1..MaxArgs -> Outcomes] :
        \A a, b, c \in 1..MaxArgs :
            (a < b /\ b < c /\ f[a] # "mismatch" /\ f[c] # "mismatch")
                => f[b] # "mismatch"}

\* lines 55-73 of us_analyzer.py: validate_us_ssn(value, text) takes two
\* arguments and returns what ssn.is_valid gives, False when that raises
validate_us_ssn(value) ==
    [n \in 1..MaxArgs |->
        IF n = 2 THEN (IF ssn_is_valid(value) THEN "true" ELSE "false")
        ELSE "mismatch"]

\* lines 17-19: ValidationRules.always_true(value, text, country, rules)
always_true == [n \in 1..MaxArgs |-> IF n = 4 THEN "true" ELSE "mismatch"]

\* an attribute that is not callable (ValidationRules.__doc__): every call
\* raises TypeError
not_callable == [n \in 1..MaxArgs |-> "mismatch"]

ValidationRulesAttrs == {"always_true", "__doc__"}

\* variant: a name ValidationRules does not have resolves to nothing callable
validation_rules_getattr_nodefault(fn) ==
    IF fn = "always_true" THEN always_true ELSE not_callable

\* line 114: getattr(ValidationRules, fn, ValidationRules.always_true)
validation_rules_getattr(fn) ==
    IF fn = "always_true" THEN always_true
    ELSE IF fn = "__doc__" THEN not_callable
    ELSE always_true

\* what importing a candidate analyzer module and looking fn up in it gives
ModuleLookups == {"importerror", "missing", "found"}

\* lines 42-73: index of the first candidate module in which fn resolves to
\* a callable, 0 for None
RECURSIVE resolve_from(_, _)
resolve_from(mods, m) ==
    IF m > Len(mods) THEN 0
    ELSE IF mods[m] = "found" THEN m
    ELSE resolve_from(mods, m + 1)

resolve_in_country(country, mods) ==
    IF country = None THEN 0 ELSE resolve_from(mods, 1)

\* lines 90-100: _call_flex, the calls made from n arguments downwards and
\* how the attempts end ("true", "false" or "raise")
RECURSIVE call_flex_from(_, _, _)
call_flex_from(target, func, n) ==
    LET call == [target |-> target, nargs |-> n]
    IN IF func[n] \in {"mismatch", "typeerror"}
       THEN IF n = 1
            THEN [calls |-> <<call>>, out |-> "raise"]
            ELSE LET rest == call_flex_from(target, func, n - 1)
                 IN [calls |-> <<call>> \o rest.calls, out |-> rest.out]
       ELSE [calls |-> <<call>>,
             out |-> IF func[n] = "error" THEN "raise" ELSE func[n]]

call_flex(target, func) == call_flex_from(target, func, MaxArgs)

\* variant: a dotted path that does not import falls back to always_true
dotted_call_fallback(req) ==
    IF req.importable
    THEN call_flex("dotted", req.func)
    ELSE call_flex("rules", always_true)

\* lines 104-106 with _import_object (lines 32-40): the import raises
\* before any call when the path does not resolve to a callable
dotted_call(req) ==
    IF req.importable
    THEN call_flex("dotted", req.func)
    ELSE [calls |-> <<>>, out |-> "raise"]

\* variant: no handler around the body, the exception leaves validate
catch_all_absent(out) ==
    [result |-> (out = "true"), raised |-> (out = "raise")]

\* lines 116-120: `except Exception` logs and returns False
catch_all(out) ==
    [result |-> (out = "true"), raised |-> FALSE]

\* lines 102-120: resolution, call and the catch-all
validate(req) ==
    LET m == resolve_in_country(req.country, req.mods)
        r == IF has_dot(req.fn)
             THEN dotted_call(req)
             ELSE IF m # 0
                  THEN call_flex(IF m = 1 THEN "country1" ELSE "country2", req.func)
                  ELSE call_flex("rules", validation_rules_getattr(req.fn))
    IN [calls |-> r.calls, result |-> catch_all(r.out).result,
        raised |-> catch_all(r.out).raised]

Validate ==
    /\ pc = "validate"
    /\ vcalls' = validate(vreq).calls
    /\ vresult' = validate(vreq).result
    /\ vraised' = validate(vreq).raised
    /\ pc' = "validated"
    /\ UNCHANGED <<vreq, idx_vars, walk_vars, out_vars, ovl_vars, heur_vars, llm_vars, svc_vars>>

(* ------------------------------ machines ------------------------------- *)
\* everything but the control position and the service-level variables
core_vars == <<idx_vars, walk_vars, out_vars, val_vars, ovl_vars, heur_vars,
               llm_vars>>

IdleIndex ==
    /\ countries_config = <<>>
    /\ group_conf = <<>> /\ display_name = <<>> /\ validator_index = <<>>

IdleWalk ==
    /\ entity = NoEntity
    /\ verdicts = [decimal |-> TRUE, generic |-> TRUE, yaml |-> TRUE]
    /\ n_seen = 0
    /\ seen_here = {}
    /\ non_overlapping_results = <<>>
    /\ overlapping_results = <<>>
    /\ current_overlap_group = <<>>
    /\ results = {}
    /\ response = <<>>

IdleOverlap ==
    /\ overlap_args = <<NoEntity, NoEntity>>
    /\ overlap_result = FALSE

IdleValidate ==
    /\ vreq = [fn |-> None, value |-> <<>>, country |-> None,
               importable |-> FALSE,
               mods |-> <<"importerror", "importerror">>, func |-> not_callable]
    /\ vcalls = <<>>
    /\ vresult = FALSE
    /\ vraised = FALSE

\* a call of a heuristic: its name and arguments
HeurCall(op, label, value, text, start, end) ==
    [op |-> op, label |-> label, value |-> value, text |-> text,
     start |-> start, end |-> end]

IdleLlm ==
    /\ llm_req = [op |-> None, enable_llm |-> FALSE, llm_entity_ids |-> {},
                  has_targets |-> FALSE, target_ids |-> {},
                  text |-> <<>>, det |-> [kind |-> "none", items |-> <<>>],
                  min_conf |-> 0, validator |-> "none"]
    /\ llm_out = [calls |-> 0, results |-> <<>>, raised |-> FALSE]

IdleHeur ==
    /\ heur = HeurCall(None, None, <<>>, <<>>, 0, 0)
    /\ heur_result = FALSE

\* process_request before it has done anything: no classifier built, the
\* pipeline not entered, AiDataModel(data="", entityDetails={}) not yet
\* filled, no response built (status 0), no exception caught or escaped
SvcStart ==
    [constructed |-> FALSE, invoked |-> FALSE, eca_returned |-> FALSE,
     analyzer_results |-> {}, entity_details |-> <<>>, input_text |-> <<>>,
     data |-> <<>>, status |-> 0, error |-> FALSE, caught |-> "none",
     raised |-> FALSE]

IdleReq ==
    /\ request = [valid |-> TRUE, text |-> <<>>, anonymize |-> FALSE,
                  country_list |-> <<>>, fault |-> "none"]
    /\ svc = SvcStart

IdleAnon ==
    /\ anon = [text |-> <<>>, data |-> {}]
    /\ anon_out = [items |-> <<>>, text |-> <<>>, response |-> <<>>]

\* an exception as the retry decorators see it: its class, and whether its
\* message holds one of the rate-limit indicators (lines 89-98)
Error(cls, indicator) == [cls |-> cls, indicator |-> indicator]
NoError == Error("none", FALSE)

\* one call of generate / generate_entity before its first backend try:
\* tries of the decorator of get_llm_response (outer) and of the backend
\* method (inner), calls of a backend method, calls of completion(),
\* rate-limit failures seen, the last outcome and what the call returned
GenStart(op, backend, api_key) ==
    [op |-> op, backend |-> backend, api_key |-> api_key,
     outer_tries |-> 0, inner_tries |-> 0, backend_calls |-> 0,
     completions |-> 0, rate_limited |-> 0, last |-> NoError,
     result |-> "pending", raised |-> FALSE]

IdleGen == gen = GenStart(None, None, FALSE)

IdleSingleton ==
    /\ instances = <<>>
    /\ constructed = 0
    /\ threads = <<>>

IdleSpans ==
    /\ span_req = [det_raw |-> <<>>, text |-> <<>>]
    /\ span_out = <<>>

IdleSvc == IdleReq /\ IdleAnon /\ IdleGen /\ IdleSingleton /\ IdleSpans

\* Configurations the request pipeline is run under
CfgUS ==
    CountryConfig("US",
        [e \in {"us-ssn", "phone-number"} |->
            IF e = "us-ssn"
            THEN EntityConfig(TRUE, "pii", 5, "US_SSN", "validate_us_ssn")
            ELSE EntityConfig(TRUE, "pii", 0, None, None)])

CfgCA ==
    CountryConfig("CA",
        [e \in {"phone-number", "zz-id"} |->
            IF e = "phone-number"
            THEN EntityConfig(TRUE, "contact", NoThreshold, "PHONE", "always_true")
            ELSE EntityConfig(TRUE, None, 0, None, None)])

DeployedConfigs == {<<CfgUS>>, <<CfgUS, CfgCA>>}

\* Request pipeline: the state after construction, at the top of the loop
\* of analyze_response
Init ==
    /\ countries_config \in DeployedConfigs
    /\ group_conf = custom_analyze(countries_config).group_conf
    /\ display_name = custom_analyze(countries_config).display_name
    /\ validator_index = custom_analyze(countries_config).validator_index
    /\ pc = "walk"
    /\ IdleWalk
    /\ IdleHeur
    /\ IdleSvc
    /\ IdleLlm
    /\ IdleValidate
    /\ IdleOverlap

Next ==
    \/ /\ pc = "walk"
       /\ \E e \in Candidates :
            \E v \in [decimal : BOOLEAN, generic : BOOLEAN, yaml : BOOLEAN] :
               AnalyzeEntity(e, v)
    \/ EndOfStream
    \/ /\ pc = "judge"
       /\ \E correct \in SUBSET SeqToSet(Flatten(overlapping_results)) :
            JudgeResults(correct)
    \/ /\ pc = "respond"
       /\ \E analyzed_data \in SortedListings(results) :
            GetAnalyzedEntitiesResponse(analyzed_data)

Spec == Init /\ [][Next]_vars

\* Validation engine: one validate call per behaviour
InitVal ==
    /\ IdleIndex
    /\ IdleWalk
    /\ IdleHeur
    /\ IdleSvc
    /\ IdleLlm
    /\ IdleOverlap
    /\ pc = "validate"
    /\ vreq \in [fn : ValidatorNames, value : SsnValues, country : {None, "US"},
                 importable : BOOLEAN,
                 mods : [1..2 -> ModuleLookups], func : Callables]
    /\ (vreq.importable => has_dot(vreq.fn))
    /\ (vreq.country = None => \A m \in 1..2 : vreq.mods[m] = "importerror")
    \* no analyzer module has an attribute of these names
    /\ (vreq.fn \in {"__doc__", "us-ssn"} =>
            \A m \in 1..2 : vreq.mods[m] # "found")
    \* the name validate_us_ssn resolves to the function of us_analyzer.py
    /\ ((vreq.fn = "validate_us_ssn" /\ \E m \in 1..2 : vreq.mods[m] = "found")
            => vreq.func = validate_us_ssn(vreq.value))
    /\ vcalls = <<>>
    /\ vresult = FALSE
    /\ vraised = FALSE

NextVal == Validate

SpecVal == InitVal /\ [][NextVal]_vars

\* Construction: the loop of custom_analyze over the jurisdictions, one
\* iteration per step.  The configs were loaded at line 62 before the loop,
\* so the load inside the loop succeeds.
CountryCodes == <<"US", "CA", "GB", "DE">>

EntityConfigs ==
    {EntityConfig(en, g, thr, rn, fn) :
        en \in BOOLEAN, g \in {None, "pii"}, thr \in {NoThreshold, 5},
        rn \in {None, "SSN"}, fn \in {None, "validate_us_ssn"}}

\* configs of one jurisdiction: no entity, or one of two entity ids
JurisdictionConfigs(country) ==
    {CountryConfig(country, <<>>)} \cup
    {CountryConfig(country, [e \in {id} |-> ent]) :
        id \in {"us-ssn", "phone-number"}, ent \in EntityConfigs}

RegisterCountry(cfg) ==
    /\ pc = "construct"
    /\ Len(countries_config) < MaxCountries
    /\ cfg \in JurisdictionConfigs(CountryCodes[Len(countries_config) + 1])
    /\ countries_config' = Append(countries_config, cfg)
    /\ LET idx == register_country(
                      [group_conf |-> group_conf, display_name |-> display_name,
                       validator_index |-> validator_index], cfg)
       IN /\ group_conf' = idx.group_conf
          /\ display_name' = idx.display_name
          /\ validator_index' = idx.validator_index
    /\ UNCHANGED <<pc, walk_vars, out_vars, val_vars, ovl_vars, heur_vars, llm_vars, svc_vars>>

\* the constructor returns
FinishConstruct ==
    /\ pc = "construct"
    /\ Len(countries_config) >= 1
    /\ pc' = "constructed"
    /\ UNCHANGED <<idx_vars, walk_vars, out_vars, val_vars, ovl_vars, heur_vars, llm_vars, svc_vars>>

InitIdx ==
    /\ IdleIndex
    /\ IdleWalk
    /\ IdleHeur
    /\ IdleSvc
    /\ IdleLlm
    /\ IdleValidate
    /\ IdleOverlap
    /\ pc = "construct"

NextIdx ==
    \/ \E k \in 1..MaxCountries : \E cfg \in JurisdictionConfigs(CountryCodes[k]) :
         RegisterCountry(cfg)
    \/ FinishConstruct

SpecIdx == InitIdx /\ [][NextIdx]_vars

\* The overlap predicate on its own: one call on any two candidates
EntitiesOverlap ==
    /\ pc = "overlap"
    /\ overlap_result' = entities_overlap(overlap_args[1], overlap_args[2])
    /\ pc' = "overlap_done"
    /\ UNCHANGED <<overlap_args, idx_vars, walk_vars, out_vars, val_vars, heur_vars, llm_vars, svc_vars>>

InitOverlap ==
    /\ IdleIndex
    /\ IdleWalk
    /\ IdleHeur
    /\ IdleSvc
    /\ IdleLlm
    /\ IdleValidate
    /\ pc = "overlap"
    /\ overlap_args \in Candidates \X Candidates
    /\ overlap_result = FALSE

NextOverlap == EntitiesOverlap

SpecOverlap == InitOverlap /\ [][NextOverlap]_vars

\* The format heuristics on their own: one call per behaviour.
\* n digits from start on, each differing from the previous one by step
Run(start, step, n) == [k \in 1..n |-> Digits[start + step * (k - 1) + 1]]

RunBodies ==
    LET P == {t \in (0..9) \X {-1, 0, 1} \X ((MinConsecutive - 1)..MaxRun) :
                 (t[1] + t[2] * (t[3] - 1)) \in 0..9}
    IN {Run(t[1], t[2], t[3]) : t \in P}

\* n digits without two neighbours that are equal or differ by one
NoRun(n) == [k \in 1..n |-> Digits[((3 * k) % 10) + 1]]

NoRunBodies == {NoRun(n) : n \in 0..MaxDigits}

\* what stands before and after the digits of a value
Affixes == {<<>>, <<"-">>, <<"a">>, <<"7">>}

ItinValues == {<<"9", "1", "2", "-", "7", "0", "-", "1", "2", "3", "4">>, <<"9", "1", "2", "-", "3", "4", "-", "5", "6", "7", "8">>}

HeurValues ==
    {pre \o body \o post :
        pre \in Affixes, body \in RunBodies \cup NoRunBodies, post \in Affixes}
    \cup SsnValues \cup ItinValues

\* what stands before a date in a text
DobPrefixes ==
    {<<"M", "e", "e", "t", "i", "n", "g", " ", "d", "a", "t", "e", ":", " ">>,
     <<"D", "O", "B", " ">>,
     <<"b", "o", "r", "n", " ", "o", "n", " ">>,
     <<"B", "o", "r", "n", " ", "i", "n", " ", "O", "h", "i", "o", ".", " ", "S", "o", "m", "e", " ", "p", "a", "g", "e", "s", " ", "l", "a", "t", "e", "r", ":", " ", "m", "e", "e", "t", "i", "n", "g", " ", "d", "a", "t", "e", " ">>}

ValidateExtractedDataCalls ==
    {HeurCall("validate_extracted_data", l, v, v, 0, Len(v)) :
        l \in NumericLabels \cup {"SSN", "PHONE_NUMBER"}, v \in HeurValues}
    \cup
    {HeurCall("validate_extracted_data", l, d, pre \o d, Len(pre), Len(pre \o d)) :
        l \in DobLabels, d \in DateValues, pre \in DobPrefixes}

\* texts over a digit, a decimal point and a space, and the spans of
\* candidates in them (a match that begins and ends with a digit)
DecimalChars == {"1", ".", " "}
DecimalTexts ==
    UNION {[1..n -> DecimalChars] : n \in 1..MaxText}
TotalText ==
    <<"T", "o", "t", "a", "l", ":", " ", 
    "1", "2", "3", "4", "5", "6", "7", "8", "9", "0", ".", "1", "2">>

IsNotPartOfDecimalCalls ==
    LET P == {x \in {"us_ssn", "PHONE_NUMBER", "email"} \X DecimalTexts
                       \X (0..(MaxText - 1)) \X (1..MaxText) :
                 /\ x[3] < x[4] /\ x[4] <= Len(x[2])
                 /\ IsDigit(x[2][x[3] + 1]) /\ IsDigit(x[2][x[4]])}
    IN {HeurCall("is_not_part_of_decimal", x[1], Slice(x[2], x[3], x[4]),
                 x[2], x[3], x[4]) : x \in P}
    \cup {HeurCall("is_not_part_of_decimal", "us_ssn", Slice(TotalText, 8, 17),
                    TotalText, 8, 17)}

IsNotPartOfDecimal ==
    /\ pc = "heur"
    /\ heur.op = "is_not_part_of_decimal"
    /\ heur_result' =
           is_not_part_of_decimal(heur.label, heur.text, heur.start, heur.end)
    /\ pc' = "heur_done"
    /\ UNCHANGED <<heur, idx_vars, walk_vars, out_vars, val_vars, ovl_vars,
                   llm_vars, svc_vars>>

LengthCalls ==
    {HeurCall("is_valid_length_for_entity", l, v, v, 0, Len(v)) :
        l \in {"credit_card_number", "phone_number", "bank_account_number",
                "PHONE_NUMBER", "credit_card"},
        v \in HeurValues}
    \cup
    {HeurCall(op, None, v, v, 0, Len(v)) :
        op \in {"validate_bank_account_number", "validate_phone_number"},
        v \in HeurValues}

IsValidLengthForEntity ==
    /\ pc = "heur"
    /\ heur.op = "is_valid_length_for_entity"
    /\ heur_result' = is_valid_length_for_entity(heur.label, heur.value)
    /\ pc' = "heur_done"
    /\ UNCHANGED <<heur, idx_vars, walk_vars, out_vars, val_vars, ovl_vars,
                   llm_vars, svc_vars>>

ValidateBankAccountNumber ==
    /\ pc = "heur"
    /\ heur.op = "validate_bank_account_number"
    /\ heur_result' = validate_bank_account_number(heur.value)
    /\ pc' = "heur_done"
    /\ UNCHANGED <<heur, idx_vars, walk_vars, out_vars, val_vars, ovl_vars,
                   llm_vars, svc_vars>>

ValidatePhoneNumber ==
    /\ pc = "heur"
    /\ heur.op = "validate_phone_number"
    /\ heur_result' = validate_phone_number(heur.value)
    /\ pc' = "heur_done"
    /\ UNCHANGED <<heur, idx_vars, walk_vars, out_vars, val_vars, ovl_vars,
                   llm_vars, svc_vars>>

ValidateExtractedData ==
    /\ pc = "heur"
    /\ heur.op = "validate_extracted_data"
    /\ heur_result' = validate_extracted_data(heur.label, heur.value, heur.text)
    /\ pc' = "heur_done"
    /\ UNCHANGED <<heur, idx_vars, walk_vars, out_vars, val_vars, ovl_vars,
                   llm_vars, svc_vars>>

InitHeur ==
    /\ IdleIndex
    /\ IdleSvc
    /\ IdleLlm
    /\ IdleWalk
    /\ IdleValidate
    /\ IdleOverlap
    /\ pc = "heur"
    /\ heur \in ValidateExtractedDataCalls \cup IsNotPartOfDecimalCalls
                    \cup LengthCalls
    /\ heur_result = FALSE

NextHeur ==
    \/ ValidateExtractedData
    \/ IsNotPartOfDecimal
    \/ IsValidLengthForEntity
    \/ ValidateBankAccountNumber
    \/ ValidatePhoneNumber

SpecHeur == InitHeur /\ [][NextHeur]_vars

\* The LLM detection pass on its own: one call per behaviour of
\* _llm_detect_and_validate ("detect") or of analyze ("analyze").
LlmText == <<"1", "2", "1", " ", "1", "2">>

\* strings the text generation can list: two that overlap in the text, one
\* that is not in it, one that is blank
LlmVals == {<<"1", "2">>, <<"2", "1">>, <<"3">>, <<" ">>}

LlmValLists == UNION {[1..n -> LlmVals] : n \in 0..MaxVals}

LlmKeys == {"US_SSN", "PHONE", "ZZ_ID"}

LlmItems == [key : LlmKeys, values : LlmValLists]

\* the parsed mappings: no key, one key, or two different keys
LlmMappings ==
    {<<>>} \cup {<<i>> : i \in LlmItems}
    \cup {m \in LlmItems \X LlmItems : m[1].key # m[2].key}

\* what generate_entity gives when it is called
LlmOutcomes ==
    {[kind |-> k, items |-> <<>>] : k \in {"exception", "none", "nonmapping"}}
    \cup {[kind |-> "mapping", items |-> m] : m \in LlmMappings}

LlmRequests ==
    {r \in [op : {"detect", "analyze"}, enable_llm : BOOLEAN,
             llm_entity_ids : {{}, {"us-ssn", "phone-number"}},
             has_targets : BOOLEAN, target_ids : {{}, {"us-ssn"}},
             text : {LlmText}, det : LlmOutcomes,
             min_conf : {0}, validator : {"none", "raise"}] :
        /\ r.has_targets = (r.target_ids # {})
        /\ (r.op = "detect" => r.validator = "none")
        /\ (~ r.enable_llm => r.llm_entity_ids # {} /\ ~ r.has_targets)
        /\ (r.llm_entity_ids = {} => ~ r.has_targets)}

LlmDetectAndValidate ==
    /\ pc = "llm"
    /\ llm_req.op = "detect"
    /\ llm_out' = llm_detect_and_validate(llm_req)
    /\ pc' = "llm_done"
    /\ UNCHANGED <<llm_req, idx_vars, walk_vars, out_vars, val_vars, ovl_vars,
                   heur_vars, svc_vars>>

Analyze ==
    /\ pc = "llm"
    /\ llm_req.op = "analyze"
    /\ llm_out' = analyze(llm_req)
    /\ pc' = "llm_done"
    /\ UNCHANGED <<llm_req, idx_vars, walk_vars, out_vars, val_vars, ovl_vars,
                   heur_vars, svc_vars>>

InitLlm ==
    /\ IdleIndex
    /\ IdleWalk
    /\ IdleValidate
    /\ IdleOverlap
    /\ IdleHeur
    /\ IdleSvc
    /\ pc = "llm"
    /\ llm_req \in LlmRequests
    /\ llm_out = [calls |-> 0, results |-> <<>>, raised |-> FALSE]

NextLlm ==
    \/ LlmDetectAndValidate
    \/ Analyze

SpecLlm == InitLlm /\ [][NextLlm]_vars

(* ------------- anonymization (entity_classifier.py 180-281) ------------ *)
\* the characters of an entity id
TypeChars(t) ==
    CASE t = "us-ssn" -> <<"u", "s", "-", "s", "s", "n">>
      [] t = "phone-number" ->
            <<"p", "h", "o", "n", "e", "-", "n", "u", "m", "b", "e", "r">>
      [] t = "zz-id" -> <<"z", "z", "-", "i", "d">>
      [] OTHER -> <<>>

\* the default operator of AnonymizerEngine.anonymize is "replace", whose
\* new value is f"<{entity_type}>"
placeholder(t) == <<"<">> \o TypeChars(t) \o <<">">>

\* the results in start order (lines 200-220: sort by start)
RECURSIVE sort_by_start(_)
sort_by_start(S) ==
    IF S = {} THEN <<>>
    ELSE LET first == CHOOSE r \in S : \A q \in S : r.start <= q.start
         IN <<first>> \o sort_by_start(S \ {first})

\* AnonymizerEngine.anonymize on results that do not overlap, over a text
\* without blanks (no conflict to resolve, no adjacent results to merge):
\* every span is replaced by its placeholder and each item carries the place
\* of its placeholder in the new text.  data is in start order, pos is the
\* offset of the original text already copied, delta the growth so far.
RECURSIVE anonymize_from(_, _, _, _)
anonymize_from(text, data, pos, delta) ==
    IF data = <<>>
    THEN [text |-> Slice(text, pos, Len(text)), items |-> <<>>]
    ELSE LET r == Head(data)
             ph == placeholder(r.entity_type)
             rest == anonymize_from(text, Tail(data), r.end,
                                    delta + Len(ph) - (r.end - r.start))
         IN [text |-> Slice(text, pos, r.start) \o ph \o rest.text,
             items |-> <<[entity_type |-> r.entity_type,
                          start |-> r.start + delta,
                          end |-> r.start + delta + Len(ph)]>>
                       \o rest.items]

\* lines 195-198: (anonymized_text.items, anonymized_text.text)
anonymize_response(analyzer_results, input_text) ==
    anonymize_from(input_text, sort_by_start(analyzer_results), 0, 0)

\* line 323: anonymized_text.replace("<", "&lt;").replace(">", "&gt;")
RECURSIVE escape(_)
escape(text) ==
    IF text = <<>> THEN <<>>
    ELSE (CASE Head(text) = "<" -> <<"&", "l", "t", ";">>
            [] Head(text) = ">" -> <<"&", "g", "t", ";">>
            [] OTHER -> <<Head(text)>>) \o escape(Tail(text))

\* lines 222-228: (location, location_count)
update_anonymized_location(start, end, location_count) ==
    [location |-> <<start + location_count, end + location_count + 6>>,
     location_count |-> location_count + 6]

\* text[a:b] of Python for 0 <= a: the bounds are clipped to the text
PySlice(text, a, b) ==
    LET hi == IF b < Len(text) THEN b ELSE Len(text)
    IN IF a >= hi THEN <<>> ELSE Slice(text, a, hi)

\* lines 251-280 with anonymized_response: the records built from index on.
\* A record whose index has no item raises IndexError at line 257, which
\* line 277 catches: the record is left out.
RECURSIVE build_anonymized(_, _, _, _, _, _, _)
build_anonymized(gc, dn, data, items, input_text, index, location_count) ==
    IF index >= Len(data) THEN <<>>
    ELSE LET value == data[index + 1]
             plain == <<value.start, value.end>>
             aligned == /\ items # <<>>
                        /\ index < Len(items)
                        /\ items[index + 1].entity_type = value.entity_type
             upd == IF aligned
                    THEN update_anonymized_location(items[index + 1].start,
                                                    items[index + 1].end,
                                                    location_count)
                    ELSE [location |-> plain, location_count |-> location_count]
             rest == build_anonymized(gc, dn, data, items, input_text,
                                      index + 1, upd.location_count)
         IN IF items # <<>> /\ index >= Len(items) THEN rest
            ELSE IF group_conf_get(gc, value.entity_type)[2] = "unknown"
                 THEN rest
                 ELSE <<[entity_type |->
                             DictGet(dn, value.entity_type, value.entity_type),
                         location |-> upd.location,
                         confidence_score |-> value.score,
                         entity_value |->
                             PySlice(input_text, value.start, value.end),
                         start_index |-> value.start,
                         end_index |-> value.end]>> \o rest

\* lines 245-281
get_analyzed_entities_response(gc, dn, data, anonymized_response, input_text) ==
    build_anonymized(gc, dn, sort_by_start(data),
                     sort_by_start(SeqToSet(anonymized_response)),
                     input_text, 0, 0)

\* characters of the texts handed to the anonymizer
AnonChars == {"1", "<"}
AnonTexts == [1..TextLen -> AnonChars]

\* results of analyze_response that do not overlap: at most one per place
NonOverlapping(S) ==
    \A a, b \in S : a = b \/ a.end <= b.start \/ b.end <= a.start
AnalyzerOutputs ==
    {S \in SUBSET {c \in Candidates : c.score = 5} :
        /\ Cardinality(S) <= TextLen
        /\ NonOverlapping(S)}

\* lines 319-322: the items and the text of the anonymizer, the text escaped
AnonymizeResponse ==
    /\ pc = "anonymize"
    /\ anon_out' =
          [anon_out EXCEPT
              !.items = anonymize_response(anon.data, anon.text).items,
              !.text = escape(anonymize_response(anon.data, anon.text).text)]
    /\ pc' = "anonymized"
    /\ UNCHANGED <<anon, core_vars, req_vars, gen_vars, sing_vars, span_vars>>

\* lines 324-326: the records for the anonymized text
GetAnonymizedEntitiesResponse ==
    /\ pc = "anonymized"
    /\ anon_out' =
          [anon_out EXCEPT
              !.response =
                  get_analyzed_entities_response(group_conf, display_name,
                      anon.data, anon_out.items, anon_out.text)]
    /\ pc' = "anon_done"
    /\ UNCHANGED <<anon, core_vars, req_vars, gen_vars, sing_vars, span_vars>>

InitAnon ==
    /\ countries_config \in DeployedConfigs
    /\ group_conf = custom_analyze(countries_config).group_conf
    /\ display_name = custom_analyze(countries_config).display_name
    /\ validator_index = custom_analyze(countries_config).validator_index
    /\ pc = "anonymize"
    /\ anon \in [text : AnonTexts, data : AnalyzerOutputs]
    /\ anon_out = [items |-> <<>>, text |-> <<>>, response |-> <<>>]
    /\ IdleReq /\ IdleGen /\ IdleSingleton /\ IdleSpans
    /\ IdleWalk /\ IdleHeur /\ IdleLlm /\ IdleValidate /\ IdleOverlap

NextAnon == AnonymizeResponse \/ GetAnonymizedEntitiesResponse

SpecAnon == InitAnon /\ [][NextAnon]_vars

(* ------------- process_request (app/service/classification.py) --------- *)
\* the step of the pipeline made to raise in a request, if any
Faults ==
    {"none", "construct", "detect", "filter", "arbitrate", "anonymize",
     "respond"}

\* texts of the requests: the empty text and the texts of the bound length
ReqTexts == {<<>>} \cup AnonTexts

\* variant: an empty text is let through
text_missing_ignored(text) == FALSE

\* line 67: `not req.text`
text_missing(text) == text = <<>>

\* lines 68-70 and 75-81: the client-error response
client_error(s) == [s EXCEPT !.status = 400, !.error = TRUE]

\* variant: no handler around the body of entity_classifier_and_anonymizer
classifier_failed_raises(s, step, text) ==
    [s EXCEPT !.raised = TRUE, !.caught = "none"]

\* lines 336-341: the exception of a step is caught and the entity details,
\* still empty, are returned with the text
classifier_failed(s, step, text) ==
    [s EXCEPT !.caught = step, !.eca_returned = TRUE,
              !.entity_details = <<>>, !.input_text = text]

\* lines 288-294: the detail of one entry
detail_of(entry) ==
    [location |-> entry.location,
     confidence_score |-> entry.confidence_score,
     entity_value |-> entry.entity_value,
     start_index |-> entry.start_index,
     end_index |-> entry.end_index]

\* lines 283-296: the details listed under each entity name
aggregate_entities_yaml(entities_response) ==
    LET names == {entities_response[k].entity_type :
                      k \in 1..Len(entities_response)}
        Details(entries) == [k \in 1..Len(entries) |-> detail_of(entries[k])]
    IN [n \in names |->
           Details(SelectSeq(entities_response,
                             LAMBDA entry : entry.entity_type = n))]

\* lines 65-70 and 75-81: validation of the request and the empty-text check
ProcessRequest ==
    /\ pc = "request"
    /\ IF ~ request.valid \/ text_missing(request.text)
       THEN /\ svc' = client_error(svc)
            /\ pc' = "responded"
       ELSE /\ svc' = svc
            /\ pc' = "construct"
    /\ UNCHANGED <<request, core_vars, anon_vars, gen_vars, sing_vars, span_vars>>

\* line 42: EntityClassifier(req.country_list); an exception of the
\* constructor is caught at lines 50-53 and the empty doc_info is returned
Construct ==
    /\ pc = "construct"
    /\ IF request.fault = "construct"
       THEN /\ svc' = [svc EXCEPT !.caught = "construct"]
            /\ pc' = "returned"
            /\ UNCHANGED idx_vars
       ELSE /\ svc' = [svc EXCEPT !.constructed = TRUE]
            /\ countries_config' = request.country_list
            /\ group_conf' = custom_analyze(request.country_list).group_conf
            /\ display_name' = custom_analyze(request.country_list).display_name
            /\ validator_index' =
                   custom_analyze(request.country_list).validator_index
            /\ pc' = "analyze"
    /\ UNCHANGED <<request, walk_vars, out_vars, val_vars, ovl_vars, heur_vars,
                   llm_vars, anon_vars, gen_vars, sing_vars, span_vars>>

\* line 318: analyze_response.  An exception of the detection or of the
\* arbitration leaves analyze_response; one raised while a candidate is
\* filtered is caught at line 163 and the walk goes on with the next one.
AnalyzeResponseCall(analyzer_results) ==
    /\ pc = "analyze"
    /\ IF request.fault \in {"detect", "arbitrate"}
       THEN /\ svc' = classifier_failed([svc EXCEPT !.invoked = TRUE],
                                        request.fault, request.text)
            /\ pc' = "returned"
       ELSE /\ svc' = [svc EXCEPT !.invoked = TRUE,
                                  !.analyzer_results = analyzer_results,
                                  !.caught = IF request.fault = "filter"
                                             THEN "filter" ELSE "none"]
            /\ pc' = IF request.anonymize THEN "anonymize_call" ELSE "respond"
    /\ UNCHANGED <<request, core_vars, anon_vars, gen_vars, sing_vars, span_vars>>

\* lines 319-322: anonymize_response(analyzer_results, input_text) is called
\* with one argument, which raises TypeError
AnonymizeResponseCall ==
    /\ pc = "anonymize_call"
    /\ svc' = classifier_failed(svc, "anonymize", request.text)
    /\ pc' = "returned"
    /\ UNCHANGED <<request, core_vars, anon_vars, gen_vars, sing_vars, span_vars>>

\* lines 328-334: the records and their aggregation, without anonymization
EntitiesResponse ==
    /\ pc = "respond"
    /\ IF request.fault = "respond"
       THEN svc' = classifier_failed(svc, "respond", request.text)
       ELSE svc' =
               [svc EXCEPT
                   !.eca_returned = TRUE,
                   !.entity_details =
                       aggregate_entities_yaml(
                           get_analyzed_entities_response(group_conf,
                               display_name, svc.analyzer_results, <<>>,
                               request.text)),
                   !.input_text = request.text]
    /\ pc' = "returned"
    /\ UNCHANGED <<request, core_vars, anon_vars, gen_vars, sing_vars, span_vars>>

\* lines 47-49 and 72-74: doc_info is filled and the response built
BuildResponse ==
    /\ pc = "returned"
    /\ svc' = [svc EXCEPT
                  !.data = IF svc.eca_returned /\ request.anonymize
                           THEN svc.input_text ELSE <<>>,
                  !.status = 200]
    /\ pc' = "responded"
    /\ UNCHANGED <<request, core_vars, anon_vars, gen_vars, sing_vars, span_vars>>

InitReq ==
    /\ pc = "request"
    /\ request \in [valid : BOOLEAN, text : ReqTexts, anonymize : BOOLEAN,
                    country_list : DeployedConfigs, fault : Faults]
    /\ svc = SvcStart
    /\ IdleIndex /\ IdleAnon /\ IdleGen /\ IdleSingleton /\ IdleSpans
    /\ IdleWalk /\ IdleHeur /\ IdleLlm /\ IdleValidate /\ IdleOverlap

NextReq ==
    \/ ProcessRequest
    \/ Construct
    \/ \E analyzer_results \in AnalyzerOutputs :
          AnalyzeResponseCall(analyzer_results)
    \/ AnonymizeResponseCall
    \/ EntitiesResponse
    \/ BuildResponse

SpecReq == InitReq /\ [][NextReq]_vars

(* ------------- text generation (text_generation/text_generation.py) ---- *)
\* line 73: LLM_MAX_RETRIES, default "5"
MAX_RETRIES == 5

Backends == {"vllm", "bedrock", "together_ai"}

\* what a call of completion() can end with: a response, a RateLimitError
\* of litellm (whose message begins with "litellm.RateLimitError"), or
\* another exception, with or without a rate-limit wording in its message
Succeeded == Error("ok", FALSE)
CompletionOutcomes ==
    {Succeeded, Error("RateLimitError", TRUE), Error("Exception", TRUE),
     Error("Exception", FALSE)}

\* lines 79-101: the message holds an indicator
is_rate_limit_error(e) == e.indicator

\* lines 104-117
should_retry_on_exception(e) ==
    IF e.cls = "RateLimitError" THEN is_rate_limit_error(e) ELSE FALSE

\* backoff.on_exception(expo, RateLimitError, max_tries, max_time, giveup):
\* after a failed try the decorator re-raises when the exception is not a
\* RateLimitError, when giveup(e) holds, when tries == max_tries or when the
\* time measured at the start of the try had reached max_time
gives_up(e, tries, max_time_exceeded) ==
    \/ e.cls # "RateLimitError"
    \/ ~ should_retry_on_exception(e)
    \/ tries = MAX_RETRIES
    \/ max_time_exceeded

\* the backends whose method carries a decorator of its own (lines 149-163
\* and 180-194); _call_together_ai (line 229) has none
InnerDecorated == {"vllm", "bedrock"}

\* variant: the exception leaves generate / generate_entity
generation_failed_raises(g, e) ==
    [g EXCEPT !.last = e, !.raised = TRUE]

\* lines 311-324 and 347-349: the exception is logged and None returned
\* (generate_entity finds no `response` among its locals)
generation_failed(g, e) ==
    [g EXCEPT !.last = e, !.result = "None"]

\* lines 275-289 under the decorator of lines 259-273: one try of
\* get_llm_response, which enters the method of the backend.
\* _call_bedrock assigns bedrock_client (line 209) without declaring it
\* global, so the test of line 208 raises UnboundLocalError before any
\* completion; _call_together_ai raises ValueError without an API key.
GetLlmResponse ==
    /\ pc = "gen_call"
    /\ LET g == [gen EXCEPT !.outer_tries = @ + 1, !.inner_tries = 0,
                            !.backend_calls = @ + 1]
       IN IF gen.backend = "bedrock"
             \/ (gen.backend = "together_ai" /\ ~ gen.api_key)
          THEN /\ gen' = generation_failed(
                             [g EXCEPT !.inner_tries =
                                 IF gen.backend = "bedrock" THEN 1 ELSE 0],
                             Error("Exception", FALSE))
               /\ pc' = "gen_done"
          ELSE /\ gen' = g
               /\ pc' = "gen_completion"
    /\ UNCHANGED <<core_vars, req_vars, anon_vars, sing_vars, span_vars>>

\* lines 171-178 and 245-254: one call of completion() and what the
\* decorators do with its outcome.  max_time_inner / max_time_outer say
\* whether the time measured at the start of the try had reached MAX_TIME
\* (never on a first try).
Completion(outcome, max_time_inner, max_time_outer) ==
    /\ pc = "gen_completion"
    /\ LET g == [gen EXCEPT
                    !.completions = @ + 1,
                    !.inner_tries =
                        IF gen.backend \in InnerDecorated THEN @ + 1 ELSE @,
                    !.rate_limited =
                        IF outcome.cls = "RateLimitError" THEN @ + 1 ELSE @]
           inner_gives_up ==
               \/ gen.backend \notin InnerDecorated
               \/ gives_up(outcome, g.inner_tries,
                           max_time_inner /\ g.inner_tries > 1)
           outer_gives_up ==
               gives_up(outcome, g.outer_tries,
                        max_time_outer /\ g.outer_tries > 1)
       IN IF outcome = Succeeded
          THEN /\ gen' = [g EXCEPT !.last = Succeeded, !.result = "text"]
               /\ pc' = "gen_done"
          ELSE IF ~ inner_gives_up
          THEN /\ gen' = [g EXCEPT !.last = outcome]
               /\ pc' = "gen_completion"
          ELSE IF ~ outer_gives_up
          THEN /\ gen' = [g EXCEPT !.last = outcome]
               /\ pc' = "gen_call"
          ELSE /\ gen' = generation_failed(g, outcome)
               /\ pc' = "gen_done"
    /\ UNCHANGED <<core_vars, req_vars, anon_vars, sing_vars, span_vars>>

InitGen ==
    /\ pc = "gen_call"
    /\ \E op \in {"generate", "generate_entity"}, backend \in Backends,
          api_key \in BOOLEAN :
          gen = GenStart(op, backend, api_key)
    /\ IdleIndex /\ IdleReq /\ IdleAnon /\ IdleSingleton /\ IdleSpans
    /\ IdleWalk /\ IdleHeur /\ IdleLlm /\ IdleValidate /\ IdleOverlap

NextGen ==
    \/ GetLlmResponse
    \/ \E outcome \in CompletionOutcomes, max_time_inner \in BOOLEAN,
          max_time_outer \in BOOLEAN :
          Completion(outcome, max_time_inner, max_time_outer)

SpecGen == InitGen /\ [][NextGen]_vars

(* ------------- map_values_to_spans on its own (span_resolver.py) ------- *)
\* lines 8-56: one call
MapValuesToSpans ==
    /\ pc = "spans"
    /\ span_out' = map_values_to_spans(span_req.det_raw, span_req.text)
    /\ pc' = "spans_done"
    /\ UNCHANGED <<span_req, core_vars, req_vars, anon_vars, gen_vars, sing_vars>>

InitSpans ==
    /\ pc = "spans"
    /\ span_req \in [det_raw : LlmMappings, text : {LlmText}]
    /\ span_out = <<>>
    /\ IdleIndex /\ IdleReq /\ IdleAnon /\ IdleGen /\ IdleSingleton
    /\ IdleWalk /\ IdleHeur /\ IdleLlm /\ IdleValidate /\ IdleOverlap

NextSpans == MapValuesToSpans

SpecSpans == InitSpans /\ [][NextSpans]_vars

(* ------------- SingletonMeta.__call__ (text_generation.py 124-135) ----- *)
Threads == 1..MaxThreads

\* a thread about to execute line 132, with no instance of its own yet
ThreadStart == [pc |-> "check", instance |-> 0, returned |-> 0]

\* line 132: `if cls not in cls._instances`
Check(t) ==
    /\ pc = "singleton"
    /\ threads[t].pc = "check"
    /\ threads' = [threads EXCEPT ![t].pc =
                      IF instances = <<>> THEN "construct" ELSE "return"]
    /\ UNCHANGED <<pc, instances, constructed, core_vars, req_vars, anon_vars,
                   gen_vars, span_vars>>

\* line 133: instance = super().__call__(*args, **kwargs); the instances
\* are numbered in the order of their construction
ConstructInstance(t) ==
    /\ pc = "singleton"
    /\ threads[t].pc = "construct"
    /\ constructed' = constructed + 1
    /\ threads' = [threads EXCEPT ![t].pc = "store",
                                  ![t].instance = constructed + 1]
    /\ UNCHANGED <<pc, instances, core_vars, req_vars, anon_vars, gen_vars,
                   span_vars>>

\* line 134: cls._instances[cls] = instance
Store(t) ==
    /\ pc = "singleton"
    /\ threads[t].pc = "store"
    /\ instances' = <<threads[t].instance>>
    /\ threads' = [threads EXCEPT ![t].pc = "return"]
    /\ UNCHANGED <<pc, constructed, core_vars, req_vars, anon_vars, gen_vars,
                   span_vars>>

\* line 135: return cls._instances[cls]
Return(t) ==
    /\ pc = "singleton"
    /\ threads[t].pc = "return"
    /\ threads' = [threads EXCEPT ![t].pc = "done",
                                  ![t].returned = instances[1]]
    /\ UNCHANGED <<pc, instances, constructed, core_vars, req_vars, anon_vars,
                   gen_vars, span_vars>>

InitSingleton ==
    /\ pc = "singleton"
    /\ instances = <<>>
    /\ constructed = 0
    /\ threads = [t \in Threads |-> ThreadStart]
    /\ IdleIndex /\ IdleReq /\ IdleAnon /\ IdleGen /\ IdleSpans
    /\ IdleWalk /\ IdleHeur /\ IdleLlm /\ IdleValidate /\ IdleOverlap

NextSingleton ==
    \E t \in Threads : Check(t) \/ ConstructInstance(t) \/ Store(t) \/ Return(t)

SpecSingleton == InitSingleton /\ [][NextSingleton]_vars

(* ============================== properties ============================= *)
\* two half-open spans intersect
Intersect(a, b) == a.start < b.end /\ b.start < a.end

Last(s) == s[Len(s)]

\* the entity's group is mapped in the index built at construction
KnownGroup(t) == t \in DOMAIN group_conf /\ group_conf[t][2] # "unknown"

\* the validators accept the candidate's value
ValidatorsAccept(e, v) ==
    v.generic /\ (e.entity_type \in DOMAIN validator_index => v.yaml)

\* a step of the walk has processed the candidate entity'
IsAnalyzeStep == pc = "walk" /\ n_seen' = n_seen + 1

\* the processed candidate entered conflict resolution
Proceeds ==
    \/ non_overlapping_results' # non_overlapping_results
    \/ current_overlap_group' # current_overlap_group

\* C1 (as claimed): the list returned by analyze_response holds no two
\* results of different entity types whose spans intersect.
C1_Orig ==
    pc \in {"respond", "done"} =>
        \A r1, r2 \in results :
            r1.entity_type # r2.entity_type => ~ Intersect(r1, r2)

\* C2 (as claimed): a candidate proceeds to conflict resolution if and only
\* if it passes the decimal filter, its group is mapped, its confidence is
\* not below the configured minimum and the validators accept it.
C2_Orig ==
    [][IsAnalyzeStep =>
        (Proceeds <=>
            /\ verdicts'.decimal
            /\ KnownGroup(entity'.entity_type)
            /\ entity'.score >= group_conf[entity'.entity_type][1]
            /\ ValidatorsAccept(entity', verdicts'))]_vars

\* the four conditions, with a confidence that is not zero
FiltersHold(e, v) ==
    /\ v.decimal
    /\ KnownGroup(e.entity_type)
    /\ e.score # 0
    /\ e.score >= group_conf[e.entity_type][1]
    /\ ValidatorsAccept(e, v)

\* C2 (amended): a candidate proceeds to conflict resolution if and only if
\* it passes the decimal filter, its group is mapped, its confidence is not
\* zero and not below the configured minimum, and the validators accept it.
C2_Amended ==
    [][IsAnalyzeStep => (Proceeds <=> FiltersHold(entity', verdicts'))]_vars

\* a candidate with confidence 0 met a minimum of 0, passed every other
\* filter and was dropped
C2_Witness ==
    /\ pc = "walk" /\ n_seen = 1
    /\ entity.score = 0
    /\ KnownGroup(entity.entity_type)
    /\ group_conf[entity.entity_type][1] = 0
    /\ verdicts.decimal /\ verdicts.generic /\ verdicts.yaml
    /\ non_overlapping_results = <<>> /\ current_overlap_group = <<>>

\* C3: no returned detail record comes from an entity id that is absent from
\* the group index or whose group is "unknown"; such candidates are neither
\* in the list analyze_response returns nor in the built response.
C3_NoUnknownEntity ==
    /\ pc \in {"respond", "done"} =>
           \A c \in results : KnownGroup(c.entity_type)
    /\ pc = "done" =>
           \A k \in 1..Len(response) :
               \E c \in results :
                   /\ KnownGroup(c.entity_type)
                   /\ response[k].entity_type =
                          (IF c.entity_type \in DOMAIN display_name
                           THEN display_name[c.entity_type] ELSE c.entity_type)
                   /\ response[k].start_index = c.start
                   /\ response[k].end_index = c.end
                   /\ response[k].confidence_score = c.score

\* a candidate of an unmapped entity with a non-zero confidence and every
\* validator accepting it was processed, and a response was built
C3_Witness ==
    /\ pc = "done"
    /\ n_seen >= 2
    /\ ~ KnownGroup(entity.entity_type)
    /\ entity.score = 5
    /\ verdicts.decimal /\ verdicts.generic /\ verdicts.yaml
    /\ response # <<>>

\* C4 (as claimed): entities_overlap returns true if and only if the two
\* half-open spans intersect, whatever the entity types and the order of
\* the arguments.
C4_Orig ==
    pc = "overlap_done" =>
        (overlap_result <=> Intersect(overlap_args[1], overlap_args[2]))

\* the accepted candidate intersects the last member of the current group
OverlapsLast(e) ==
    current_overlap_group # <<>> /\ Intersect(Last(current_overlap_group), e)

\* C5: when an accepted candidate overlaps the last member of the current
\* group, a candidate of the same entity type is appended to the
\* non-overlapping output and the group is left as it is; a candidate of a
\* different type is appended to the group and the non-overlapping output is
\* left as it is.
C5_OverlapStep ==
    [][(IsAnalyzeStep /\ FiltersHold(entity', verdicts') /\ OverlapsLast(entity'))
        => IF Last(current_overlap_group).entity_type = entity'.entity_type
           THEN /\ non_overlapping_results' = Append(non_overlapping_results, entity')
                /\ current_overlap_group' = current_overlap_group
                /\ overlapping_results' = overlapping_results
           ELSE /\ current_overlap_group' = Append(current_overlap_group, entity')
                /\ non_overlapping_results' = non_overlapping_results
                /\ overlapping_results' = overlapping_results]_vars

\* both branches were taken: a group of two types was formed and then a
\* candidate of the type of its last member, overlapping it, went straight to
\* the non-overlapping output
C5_Witness ==
    /\ pc = "walk"
    /\ Len(current_overlap_group) = 2
    /\ non_overlapping_results = <<entity>>
    /\ Intersect(Last(current_overlap_group), entity)
    /\ Last(current_overlap_group).entity_type = entity.entity_type

\* the current group is flushed by the step: a group of one member goes to
\* the non-overlapping output, a larger one becomes an overlap group
Flushed ==
    /\ Len(current_overlap_group) = 0 =>
           /\ non_overlapping_results' = non_overlapping_results
           /\ overlapping_results' = overlapping_results
    /\ Len(current_overlap_group) = 1 =>
           /\ non_overlapping_results' =
                  Append(non_overlapping_results, current_overlap_group[1])
           /\ overlapping_results' = overlapping_results
    /\ Len(current_overlap_group) > 1 =>
           /\ overlapping_results' =
                  Append(overlapping_results, current_overlap_group)
           /\ non_overlapping_results' = non_overlapping_results

\* C6: an accepted candidate that does not overlap the last member of the
\* current group flushes the group and becomes the only member of a new one;
\* at the end of the stream the trailing group is flushed by the same rule,
\* so every member of it is in the output or in an overlap group when
\* arbitration is called.
C6_FlushStep ==
    [][/\ (IsAnalyzeStep /\ FiltersHold(entity', verdicts') /\ ~ OverlapsLast(entity'))
            => (Flushed /\ current_overlap_group' = <<entity'>>)
       /\ (pc = "walk" /\ pc' = "judge")
            => /\ Flushed
               /\ \A k \in 1..Len(current_overlap_group') :
                      current_overlap_group'[k] \in
                          SeqToSet(non_overlapping_results')
                          \cup SeqToSet(Flatten(overlapping_results'))]_vars

\* arbitration is about to be called after a group of two was flushed by a
\* candidate that does not overlap it, and that candidate, alone in the
\* trailing group, was flushed to the non-overlapping output
C6_Witness ==
    /\ pc = "judge"
    /\ Len(overlapping_results) = 1
    /\ Len(overlapping_results[1]) = 2
    /\ current_overlap_group = <<entity>>
    /\ non_overlapping_results = <<entity>>
    /\ ~ Intersect(Last(overlapping_results[1]), entity)

\* C7 (as claimed): every overlap group submitted to arbitration is
\* start-ordered, its members' spans pairwise overlap and its members'
\* entity types are pairwise different.
C7_Orig ==
    pc = "judge" =>
        \A g \in 1..Len(overlapping_results) :
            LET grp == overlapping_results[g]
            IN /\ IsSortedByStart(grp)
               /\ \A i, j \in 1..Len(grp) :
                      i < j => /\ Intersect(grp[i], grp[j])
                               /\ grp[i].entity_type # grp[j].entity_type

\* C7 (amended): every overlap group submitted to arbitration is a
\* start-ordered sequence of at least two members in which every two
\* consecutive members overlap and have different entity types.
C7_Amended ==
    pc = "judge" =>
        \A g \in 1..Len(overlapping_results) :
            LET grp == overlapping_results[g]
            IN /\ Len(grp) >= 2
               /\ IsSortedByStart(grp)
               /\ \A i \in 1..(Len(grp) - 1) :
                      /\ Intersect(grp[i], grp[i + 1])
                      /\ grp[i].entity_type # grp[i + 1].entity_type

\* a group of three is submitted whose first and last member neither
\* overlap nor differ in type
C7_Witness ==
    /\ pc = "judge"
    /\ \E g \in 1..Len(overlapping_results) :
          LET grp == overlapping_results[g]
          IN /\ Len(grp) = 3
             /\ ~ Intersect(grp[1], grp[3])
             /\ grp[1].entity_type = grp[3].entity_type

\* the entity is present and enabled in the jurisdiction's config
Defines(cfg, id) == id \in DOMAIN cfg.entities /\ cfg.entities[id].enabled

\* C8 (as claimed): after construction, for every entity id defined in more
\* than one jurisdiction, each of the three indices holds exactly what the
\* last jurisdiction defining it declares, nothing of an earlier one.
C8_Orig ==
    pc = "constructed" =>
        \A id \in EntityIds :
            LET defs == {k \in 1..Len(countries_config) :
                            Defines(countries_config[k], id)}
            IN Cardinality(defs) > 1 =>
                LET last == CHOOSE k \in defs : \A j \in defs : j <= k
                    ent == countries_config[last].entities[id]
                IN /\ id \in DOMAIN group_conf
                   /\ group_conf[id] =
                          <<IF ent.min_confidence = NoThreshold
                            THEN DefaultMinConf ELSE ent.min_confidence,
                            IF ent.group = None THEN "unknown" ELSE ent.group>>
                   /\ IF ent.return_name = None
                      THEN id \notin DOMAIN display_name
                      ELSE /\ id \in DOMAIN display_name
                           /\ display_name[id] = ent.return_name
                   /\ IF ent.validate_fn = None
                      THEN id \notin DOMAIN validator_index
                      ELSE /\ id \in DOMAIN validator_index
                           /\ validator_index[id] =
                                  [country |-> countries_config[last].country,
                                   fn |-> ent.validate_fn]

\* the callable that validate called
CalledFunc ==
    IF vcalls[1].target = "rules"
    THEN validation_rules_getattr(vreq.fn)
    ELSE vreq.func

\* fn resolves in one of the jurisdiction's analyzer modules
ResolvesInCountry ==
    vreq.country # None /\ \E m \in 1..2 : vreq.mods[m] = "found"

\* C9: validate resolves a dotted path first, then the jurisdiction's
\* analyzer module, then ValidationRules, and calls only the first that
\* resolves; a name without a dot that resolves in neither the module nor
\* ValidationRules makes validate return True.
C9_ResolutionOrder ==
    pc = "validated" =>
        /\ has_dot(vreq.fn) =>
               IF vreq.importable
               THEN /\ vcalls # <<>>
                    /\ \A k \in 1..Len(vcalls) : vcalls[k].target = "dotted"
               ELSE vcalls = <<>> /\ vresult = FALSE
        /\ (~ has_dot(vreq.fn) /\ ResolvesInCountry) =>
               LET first == CHOOSE m \in 1..2 :
                                /\ vreq.mods[m] = "found"
                                /\ \A j \in 1..(m - 1) : vreq.mods[j] # "found"
               IN /\ vcalls # <<>>
                  /\ \A k \in 1..Len(vcalls) :
                         vcalls[k].target =
                             (IF first = 1 THEN "country1" ELSE "country2")
        /\ (~ has_dot(vreq.fn) /\ ~ ResolvesInCountry) =>
               /\ vcalls # <<>>
               /\ \A k \in 1..Len(vcalls) : vcalls[k].target = "rules"
               /\ vreq.fn \notin ValidationRulesAttrs =>
                      (vresult = TRUE /\ Len(vcalls) = 1 /\ vcalls[1].nargs = MaxArgs)

\* a name without a dot, found neither in the jurisdiction's module (which
\* imports) nor in ValidationRules, was validated and accepted
C9_Witness ==
    /\ pc = "validated"
    /\ vreq.fn = "no_such_validator"
    /\ vreq.country = "US"
    /\ vreq.mods = <<"missing", "importerror">>
    /\ vresult = TRUE
    /\ vcalls = <<[target |-> "rules", nargs |-> 4]>>

\* C10 (as claimed): the calls are made with 4, 3, 2, 1 arguments in that
\* order, the next shorter call is made only after an arity mismatch, the
\* result is the boolean of the first call that did not fail that way, and
\* a failure of any other kind ends the attempts with False.
C10_Orig ==
    (pc = "validated" /\ vcalls # <<>>) =>
        LET f == CalledFunc
            n == Len(vcalls)
            o == f[vcalls[n].nargs]
        IN /\ \A k \in 1..n : vcalls[k].nargs = MaxArgs + 1 - k
           /\ \A k \in 1..(n - 1) : f[vcalls[k].nargs] = "mismatch"
           /\ o \in {"true", "false"} => vresult = (o = "true")
           /\ o \in {"typeerror", "error"} => vresult = FALSE
           /\ o = "mismatch" => (vcalls[n].nargs = 1 /\ vresult = FALSE)

\* every call validate made raised (arity mismatch, TypeError or any other
\* exception)
EveryCallRaised ==
    \A k \in 1..Len(vcalls) :
        CalledFunc[vcalls[k].nargs] \in {"mismatch", "typeerror", "error"}

\* C11: validate never raises; it returns a boolean, and it returns False
\* whenever the resolved validator raises on every attempted call.
C11_NeverRaises ==
    pc = "validated" =>
        /\ vraised = FALSE
        /\ vresult \in BOOLEAN
        /\ (vcalls # <<>> /\ EveryCallRaised) => vresult = FALSE

\* a validator resolved in the jurisdiction's module raised on each of the
\* four calls, the last one with an exception other than TypeError
C11_Witness ==
    /\ pc = "validated"
    /\ Len(vcalls) = MaxArgs
    /\ vcalls[1].target = "country1"
    /\ vreq.func[1] = "error"
    /\ EveryCallRaised
    /\ vresult = FALSE
    /\ vraised = FALSE

\* the validator name cannot be resolved: a dotted path that fails to
\* import, or a plain name found in neither the module nor ValidationRules
DottedUnresolved == has_dot(vreq.fn) /\ ~ vreq.importable
PlainUnresolved ==
    /\ ~ has_dot(vreq.fn)
    /\ ~ ResolvesInCountry
    /\ vreq.fn \notin ValidationRulesAttrs

\* C12 (as claimed): when the validator named for an entity cannot be
\* resolved, validate returns False.
C12_Orig ==
    pc = "validated" => ((DottedUnresolved \/ PlainUnresolved) => vresult = FALSE)

\* C12 (amended): a dotted path that fails to import makes validate return
\* False without any call; a plain name found in neither the jurisdiction's
\* module nor ValidationRules is replaced by always_true and validate
\* returns True.
C12_Amended ==
    pc = "validated" =>
        /\ DottedUnresolved => (vresult = FALSE /\ vcalls = <<>>)
        /\ PlainUnresolved =>
               (vresult = TRUE /\ vcalls = <<[target |-> "rules", nargs |-> MaxArgs]>>)

\* a dotted path failed to import and the value was rejected
C12_Witness ==
    /\ pc = "validated"
    /\ DottedUnresolved
    /\ vreq.country = "US"
    /\ vcalls = <<>>
    /\ vresult = FALSE

\* C13 (as claimed): validate called with the validator name "us-ssn"
\* returns True for a value only when the value satisfies the SSN rule
\* applied by validate_us_ssn, and False for every value that fails it.
C13_Orig ==
    (pc = "validated" /\ vreq.fn = "us-ssn") =>
        /\ vresult = TRUE => ssn_is_valid(vreq.value)
        /\ ~ ssn_is_valid(vreq.value) => vresult = FALSE

\* the digits of the value, other characters left out, hold at least five
\* neighbours each differing from the previous one by step
HasDigitRun(value, step) ==
    LET d == digits_of(value)
    IN \E i \in 1..Len(d) :
           /\ i + 4 <= Len(d)
           /\ \A j \in i..(i + 3) : DigitVal(d[j + 1]) = DigitVal(d[j]) + step

\* C14 (as claimed): for every numeric entity type and every value that
\* contains a run of at least 5 increasing digits, with or without other
\* characters around or between the digit groups, validate_extracted_data
\* returns False; the same holds for decreasing and repeated-digit runs.
C14_Orig ==
    (/\ pc = "heur_done"
     /\ heur.op = "validate_extracted_data"
     /\ heur.label \in NumericLabels
     /\ \E step \in {1, -1, 0} : HasDigitRun(heur.value, step))
        => heur_result = FALSE

\* the character of the text at offset i, when there is one
HasCharAt(text, i) == 0 <= i /\ i < Len(text)
DigitAt(text, i) == HasCharAt(text, i) /\ IsDigit(text[i + 1])
PointAt(text, i) == HasCharAt(text, i) /\ text[i + 1] = "."

\* the match at [start, end) touches a digit, directly or across one
\* decimal point
TouchesNumber(text, start, end) ==
    \/ DigitAt(text, start - 1)
    \/ (PointAt(text, start - 1) /\ DigitAt(text, start - 2))
    \/ DigitAt(text, end)
    \/ (PointAt(text, end) /\ DigitAt(text, end + 1))

\* C15 (as claimed): for a candidate of a numeric entity type at
\* [start, end), is_not_part_of_decimal returns False if and only if the
\* character before start or after end is a digit, or is a decimal point
\* with an existing digit on its other side; the match on "234567890"
\* inside "Total: 1234567890.12" is rejected.
C15_Orig ==
    (/\ pc = "heur_done"
     /\ heur.op = "is_not_part_of_decimal"
     /\ Lower(heur.label) \in DecimalLabels)
        => (heur_result = FALSE <=> TouchesNumber(heur.text, heur.start, heur.end))

\* number of digits of the value
DigitCount(value) == Len(digits_of(value))

\* the value holds no letter and no run of five digits
PlainNumber(value) ==
    /\ \A k \in 1..Len(value) : ~ IsLetter(value[k])
    /\ \A step \in {1, -1, 0} : ~ HasDigitRun(value, step)

\* C16 (as claimed): the per-type length checks accept a value exactly when
\* its number of digits lies in the stated range: 12 to 19 for credit-card
\* values, 7 to 30 for phone values, 6 to 17 for bank-account values; a
\* bank-account value of 16 or 17 digits with no letters and no digit runs
\* is accepted.
C16_Orig ==
    pc = "heur_done" =>
        /\ heur.op = "is_valid_length_for_entity" =>
               /\ Lower(heur.label) = "credit_card_number" =>
                      (heur_result <=> DigitCount(heur.value) \in 12..19)
               /\ Lower(heur.label) = "phone_number" =>
                      (heur_result <=> DigitCount(heur.value) \in 7..30)
               /\ Lower(heur.label) = "bank_account_number" =>
                      (heur_result <=> DigitCount(heur.value) \in 6..17)
        /\ (heur.op = "validate_bank_account_number" /\ PlainNumber(heur.value)) =>
               (heur_result <=> DigitCount(heur.value) \in 6..17)
        /\ (heur.op = "validate_phone_number" /\ PlainNumber(heur.value)) =>
               (heur_result <=> DigitCount(heur.value) \in 7..30)

\* a birth keyword occurs somewhere in the text (nearness in its weakest
\* sense)
BirthKeywordIn(text) ==
    \E kw \in DobKeywords :
        \E i \in 0..(Len(text) - Len(kw)) :
            \A k \in 1..Len(kw) : LowerChar(text[i + k]) = kw[k]

\* C17 (as claimed): the generic validator accepts a date-of-birth value
\* only when a birth-related keyword occurs near the match in the text; for
\* a text without a birth keyword, such as "Meeting date: 2024-01-15", no
\* date-of-birth candidate is accepted.
C17_Orig ==
    (/\ pc = "heur_done"
     /\ heur.op = "validate_extracted_data"
     /\ heur.label \in DobLabels
     /\ heur_result = TRUE)
        => BirthKeywordIn(heur.text)

\* the text generation failed or gave nothing usable: an exception, None,
\* something that is not a mapping, or an empty mapping
LlmFailed ==
    \/ llm_req.det.kind \in {"exception", "none", "nonmapping"}
    \/ (llm_req.det.kind = "mapping" /\ llm_req.det.items = <<>>)

\* C18: the LLM detection pass never raises past its boundary; for every
\* failing outcome of the text-generation call _llm_detect_and_validate
\* returns an empty candidate list and analyze returns normally.
C18_NeverRaises ==
    (pc = "llm_done" /\ LlmFailed) =>
        /\ llm_out.raised = FALSE
        /\ llm_out.results = <<>>

\* analyze ran for an analyzer with LLM detection enabled and eligible
\* entities, over a text generation that raises, and returned no candidate
C18_Witness ==
    /\ pc = "llm_done"
    /\ llm_req.op = "analyze"
    /\ llm_req.enable_llm
    /\ llm_req.llm_entity_ids # {}
    /\ llm_req.det.kind = "exception"
    /\ llm_out.results = <<>>
    /\ llm_out.raised = FALSE

\* the spans map_values_to_spans resolves for the request
ResolvedSpans == map_values_to_spans(llm_req.det.items, llm_req.text)

\* C19 (as claimed): for an analyzer with LLM detection enabled and at
\* least one LLM-eligible entity, when the text generation returns a mapping
\* whose values occur in the text, _llm_detect_and_validate issues one
\* text-generation call and returns exactly one candidate per resolved
\* (entity, span), each with the confidence 0.8.
C19_Orig ==
    (/\ pc = "llm_done"
     /\ llm_req.op = "detect"
     /\ llm_req.enable_llm
     /\ llm_ids_for(llm_req) # {}
     /\ llm_req.det.kind = "mapping"
     /\ ResolvedSpans # <<>>)
        => /\ llm_out.calls = 1
           /\ Len(llm_out.results) = Len(ResolvedSpans)
           /\ \A k \in 1..Len(ResolvedSpans) :
                  llm_out.results[k] =
                      RecognizerResult(ResolvedSpans[k][1], ResolvedSpans[k][2],
                                       ResolvedSpans[k][3], 8)

\* the candidates the walk holds: accepted, grouped or in the current group
Held ==
    SeqToSet(non_overlapping_results) \cup SeqToSet(Flatten(overlapping_results))
        \cup SeqToSet(current_overlap_group)

\* C20: every detail record returned by entity_classifier_and_anonymizer
\* has 0 <= start_index < end_index <= length of the text, and its offsets
\* are those of a candidate a detector produced: a step of the pipeline
\* adds to what it holds only the candidate it has just read, returns only
\* what it holds, and builds each record from the offsets of a returned
\* result.
C20_OffsetsKept ==
    [][/\ Held' \subseteq
              (Held \cup (IF IsAnalyzeStep THEN {entity'} ELSE {}))
       /\ results' \subseteq (results \cup Held)
       /\ \A k \in 1..Len(response') :
              /\ 0 <= response'[k].start_index
              /\ response'[k].start_index < response'[k].end_index
              /\ response'[k].end_index <= TextLen
              /\ \E r \in results :
                     /\ r.start = response'[k].start_index
                     /\ r.end = response'[k].end_index]_vars

\* a response with two detail records was built
C20_Witness ==
    /\ pc = "done"
    /\ Len(response) = 2
    /\ response[1].start_index = 0 /\ response[1].end_index = 1
    /\ response[2].start_index = 1 /\ response[2].end_index = TextLen

\* the result of the request that a record was built from
ResultOf(rec) ==
    CHOOSE r \in anon.data :
        r.start = rec.start_index /\ r.end = rec.end_index

\* C22: in anonymization mode the location reported for each record is the
\* place of that record's placeholder in the returned text: the returned
\* text reads the (escaped) placeholder of the record's entity at the
\* reported location.
C22_Orig ==
    pc = "anon_done"
        => \A k \in 1..Len(anon_out.response) :
              LET rec == anon_out.response[k]
              IN PySlice(anon_out.text, rec.location[1], rec.location[2])
                     = escape(placeholder(ResultOf(rec).entity_type))

\* the results of the request that belong to a known group
Accepted ==
    {r \in svc.analyzer_results :
        group_conf_get(group_conf, r.entity_type)[2] # "unknown"}

\* the number of detail records of the response
DetailCount(details) ==
    LET names == DOMAIN details
        RECURSIVE Sum(_)
        Sum(S) == IF S = {} THEN 0
                  ELSE LET n == CHOOSE n \in S : TRUE
                       IN Len(details[n]) + Sum(S \ {n})
    IN Sum(names)

\* C21: a request with anonymize set, on a text with at least one accepted
\* candidate, is answered with the redacted text (every accepted span
\* replaced by its placeholder, as the anonymizer writes it or escaped) and
\* with one detail record for every replacement.
C21_Orig ==
    (/\ pc = "responded"
     /\ request.anonymize
     /\ request.fault = "none"
     /\ svc.invoked
     /\ Accepted # {})
        => /\ svc.data \in
                 {anonymize_response(svc.analyzer_results, request.text).text,
                  escape(anonymize_response(svc.analyzer_results,
                                            request.text).text)}
           /\ DetailCount(svc.entity_details) = Cardinality(Accepted)

\* C23: a request whose text is empty is answered with status 400, and for
\* it no classifier is constructed and the pipeline is not entered.
C23_EmptyText ==
    (request.valid /\ request.text = <<>>)
        => /\ ~ svc.constructed
           /\ ~ svc.invoked
           /\ pc = "responded" => (svc.status = 400 /\ svc.error)

\* an empty text was answered
C23_Witness ==
    /\ pc = "responded"
    /\ request.valid
    /\ request.text = <<>>
    /\ svc.status = 400

C25_Orig == gen.completions <= MAX_RETRIES

\* C26: after a failure that is not of the rate-limit class the call makes
\* no further attempt and generate / generate_entity return None without
\* raising (when that failure is the first one, exactly one backend method
\* was entered and at most one completion tried); the same None is returned
\* when the tries for rate-limit failures are used up.
C26_NoRetry ==
    /\ gen.last.cls = "Exception"
          => /\ pc = "gen_done"
             /\ gen.result = "None"
             /\ gen.rate_limited = 0
                   => (gen.backend_calls = 1 /\ gen.completions <= 1)
    /\ (pc = "gen_done" /\ gen.last.cls = "RateLimitError")
          => gen.result = "None"
    /\ ~ gen.raised

\* a completion failed with an error of another class and the call ended
C26_Witness ==
    /\ pc = "gen_done"
    /\ gen.backend = "vllm"
    /\ gen.last = Error("Exception", TRUE)
    /\ gen.completions = 1
    /\ gen.result = "None"

\* the strings the mapping lists under a key of the entity eid
ValuesOf(eid) ==
    UNION {SeqToSet(span_req.det_raw[i].values) :
              i \in {i \in 1..Len(span_req.det_raw) :
                        key_to_entity_get(span_req.det_raw[i].key) = eid}}

\* val stands in the text at offset i
OccursAt(val, i) ==
    /\ i + Len(val) <= Len(span_req.text)
    /\ \A k \in 1..Len(val) : span_req.text[i + k] = val[k]

\* C27: the spans returned by map_values_to_spans are pairwise disjoint
\* across all entities; each (entity, start, end) lies in the text with
\* start < end and is the first literal occurrence of a string listed for
\* that entity, which the text reads at [start, end); a string that does
\* not occur in the text gives no span.
C27_Spans ==
    pc = "spans_done"
        => /\ \A i, j \in 1..Len(span_out) :
                  i # j => \/ span_out[i][3] <= span_out[j][2]
                           \/ span_out[j][3] <= span_out[i][2]
           /\ \A i \in 1..Len(span_out) :
                  LET start == span_out[i][2]
                      end == span_out[i][3]
                  IN /\ 0 <= start /\ start < end
                     /\ end <= Len(span_req.text)
                     /\ \E val \in ValuesOf(span_out[i][1]) :
                           /\ Len(val) = end - start
                           /\ OccursAt(val, start)
                           /\ \A b \in 0..(start - 1) : ~ OccursAt(val, b)
           /\ \A i \in 1..Len(span_req.det_raw) :
                 \A k \in 1..Len(span_req.det_raw[i].values) :
                    LET val == span_req.det_raw[i].values[k]
                    IN (\A b \in 0..Len(span_req.text) : ~ OccursAt(val, b))
                          => \A n \in 1..Len(span_out) :
                                Slice(span_req.text, span_out[n][2],
                                      span_out[n][3]) # val

\* two strings of two entities were listed whose first occurrences overlap,
\* and only the first one got a span
C27_Witness ==
    /\ pc = "spans_done"
    /\ Len(span_req.det_raw) = 2
    /\ span_req.det_raw[1].values = <<<<"1", "2">>>>
    /\ span_req.det_raw[2].values = <<<<"2", "1">>, <<"3">>>>
    /\ key_to_entity_get(span_req.det_raw[1].key) # None
    /\ key_to_entity_get(span_req.det_raw[2].key) # None
    /\ Len(span_out) = 1
    /\ span_out[1][2] = 0 /\ span_out[1][3] = 2

\* C28: under any interleaving of concurrent TextGeneration() calls the
\* constructor runs at most once and every caller receives the same
\* instance.
C28_Orig ==
    /\ constructed <= 1
    /\ \A t, u \in DOMAIN threads :
          (threads[t].pc = "done" /\ threads[u].pc = "done")
              => threads[t].returned = threads[u].returned

\* how many times the candidate c stands in the lists of the walk
Occurrences(c, nor, ovr, cur) ==
    LET Count(seq) == Cardinality({k \in 1..Len(seq) : seq[k] = c})
    IN Count(nor) + Count(Flatten(ovr)) + Count(cur)

\* C29: when analyze_response calls the arbitration, every candidate that
\* passed the filters stands exactly once in the non-overlapping output and
\* the overlap groups taken together, and every overlap group has at least
\* two members: each step of the walk adds the candidate it has read once
\* when it passed the filters and otherwise keeps every count (the last
\* step files the current group, which the local variable still names),
\* and at the call no candidate stands twice.
C29_ExactlyOnce ==
    /\ [](pc = "judge"
            => /\ \A g \in 1..Len(overlapping_results) :
                      Len(overlapping_results[g]) >= 2
               /\ \A c \in Held :
                      Occurrences(c, non_overlapping_results,
                                  overlapping_results, <<>>) = 1)
    /\ [][pc = "walk"
            => \A c \in Held \cup Held' \cup {entity'} :
                  Occurrences(c, non_overlapping_results',
                              overlapping_results',
                              IF pc' = "walk" THEN current_overlap_group'
                              ELSE <<>>)
                    = Occurrences(c, non_overlapping_results,
                                  overlapping_results, current_overlap_group)
                      + (IF /\ IsAnalyzeStep
                            /\ entity' = c
                            /\ passes_filters(group_conf, validator_index,
                                              entity', verdicts')
                         THEN 1 ELSE 0)]_vars

\* the arbitration is called with one group of two and one candidate apart
C29_Witness ==
    /\ pc = "judge"
    /\ Len(overlapping_results) = 1
    /\ Len(overlapping_results[1]) = 2
    /\ Len(non_overlapping_results) = 1

\* the entities whose config, in the last requested country that enables
\* them, declares no thresholds
WithoutThresholds ==
    {t \in EntityIds :
        \E k \in 1..Len(countries_config) :
            /\ t \in DOMAIN countries_config[k].entities
            /\ countries_config[k].entities[t].enabled
            /\ countries_config[k].entities[t].min_confidence = NoThreshold
            /\ \A j \in (k + 1)..Len(countries_config) :
                  ~ (/\ t \in DOMAIN countries_config[j].entities
                     /\ countries_config[j].entities[t].enabled)}

\* C30: for an enabled entity whose config declares no thresholds the index
\* records the minimum confidence 1.0, and analyze_response rejects every
\* candidate of that entity with a score below 1.0; a candidate whose score
\* is 0 is rejected whatever the minimum of its entity is.
C30_DefaultMinimum ==
    /\ [](\A t \in WithoutThresholds :
              t \in DOMAIN group_conf /\ group_conf[t][1] = 10)
    /\ [][(/\ IsAnalyzeStep
           /\ \/ entity'.score = 0
              \/ (entity'.entity_type \in WithoutThresholds
                    /\ entity'.score < 10))
            => /\ non_overlapping_results' = non_overlapping_results
               /\ overlapping_results' = overlapping_results
               /\ current_overlap_group' = current_overlap_group]_vars

\* a candidate of an entity without thresholds, with the score 0.5 and
\* every other filter passed, was read and rejected
C30_Witness ==
    /\ pc = "walk"
    /\ entity.entity_type \in WithoutThresholds
    /\ entity.score = 5
    /\ verdicts = [decimal |-> TRUE, generic |-> TRUE, yaml |-> TRUE]
    /\ group_conf[entity.entity_type][2] # "unknown"
    /\ entity \notin Held

====
